---- MODULE Spec2Model ----
(***************************************************************************)
(* A model of the scenario runner (plugins/scenario/Runner.ts), of the      *)
(* deployment manager's retry / idempotency layer, and of the deployment    *)
(* manager's contract map with the calls that read and fill it: spider,     *)
(* contracts, contract, deploy, clone, existing and putAlias                *)
(* (plugins/deployment_manager).  Each component has its own               *)
(* specification over the shared variable tuple; a component that is not   *)
(* running keeps its variables at their initial values.                    *)
(***************************************************************************)
EXTENDS Integers, Sequences, FiniteSets, TLC

(***************************************************************************)
(* Bounds of the model.                                                    *)
(***************************************************************************)
\* the largest number of constraints a scenario declares
MaxConstraints == 2
\* the largest number of solutions one solve call returns in a list
MaxSols == 3
\* the largest number of times the retried operation fails before it succeeds
MaxFails == 6
\* the largest number of _deploy / _deployBuild calls made on one manager
MaxDeploys == 2
\* the largest retries argument passed explicitly
MaxRetries == 3
\* the largest number of attempts the timeout ends in one call
MaxTimeouts == 2
\* the largest number of managed signers
MaxSigners == 2
\* the largest wait argument passed explicitly
MaxWait == 1
\* the largest number of calls made on one deployment manager
MaxCalls == 2

(***************************************************************************)
(* Program constants.                                                      *)
(***************************************************************************)
\* retry's default retries
DefaultRetries == 5
\* retry's default wait, in milliseconds
DefaultWait == 250

VARIABLES
  \* ---- Runner.run ------------------------------------------------------
  pc,               \* position of Runner.run / runScenarios
  scenario,         \* the scenario: [constraints |-> "absent" | "given", n |-> number of constraints]
  world,            \* the world state: the set of effects applied to the chain
  snapshots,        \* the world's snapshots: handle -> saved world state
  nextSnap,         \* the next snapshot handle the world hands out
  worldSnapshot,    \* run's local worldSnapshot
  numSolutionSets,  \* run's local numSolutionSets
  pending,          \* the solve calls issued and not yet settled
  solutionChoices,  \* per constraint, the mapSolution'ed solve result
  comboList,        \* what the combos generator yields, in order
  ci,               \* index of the combination being tried
  ctx,              \* the trial's context: the solutions that replaced it, in order
  si,               \* index of the next solution of the combination to apply
  ki,               \* index of the next constraint to check
  caught,           \* <<e>> once the trial's try block has thrown e, else <<>>
  returning,        \* <<Result>> while the catch block's return is pending, else <<>>
  result,           \* <<Result>> once run has returned, else <<>>
  rejection,        \* <<e>> once run has rejected, else <<>>
  results,          \* runScenarios' results list
  \* ---- history of the run (observations, not program state) -------------
  trials,           \* number of trials started (fresh contexts requested)
  reverts,          \* number of world._revertAndSnapshot calls
  revertArgOk,      \* every revert so far was passed the latest snapshot handle
  executed,         \* the combinations whose property was executed, in order
  touched,          \* the combinations of which a solution, check or property ran
  solveCalls,       \* how many times each constraint's solve was called
  solved,           \* what each constraint's solve resolved to, before mapSolution
  thrownAt          \* <<where, trial>> of the first throw, or <<>>

runnerVars == << pc, scenario, world, snapshots, nextSnap, worldSnapshot,
                 numSolutionSets, pending, solutionChoices, comboList, ci, ctx,
                 si, ki, caught, returning, result, rejection, results, trials, reverts,
                 revertArgOk, executed, touched, solveCalls, solved,
                 thrownAt >>

(***************************************************************************)
(* DeploymentManager.retry and DeploymentManager.idempotent                *)
(***************************************************************************)
VARIABLES
  rpc,              \* position of the retry / idempotent call
  entry,            \* the call made: "retry" or "idempotent"
  fails,            \* the op: its first `fails` invocations reject, the next resolve
  condition,        \* what idempotent's condition() resolves to
  retriesArg,       \* the retries argument: <<>> when omitted, else <<n>>
  timeLimit,        \* the timeLimit argument: <<>> when omitted, else <<ms>>
  waitArg,          \* the wait argument: <<>> when omitted, else <<ms>>
  retries,          \* the retries parameter of the innermost retry call
  wait,             \* the wait parameter of the innermost retry call
  pendingCounts,    \* per managed signer, the nonce manager's pending count
  outstanding,      \* the invocations of op that have not settled
  attemptError,     \* <<e>> the error caught by the innermost retry call, else <<>>
  outcome,          \* <<"resolved", v>> or <<"rejected", e>> once the call settled, else <<>>
  \* ---- history ----------------------------------------------------------
  invocations,      \* number of times op was invoked
  conditionEvals,   \* number of times condition was evaluated
  timeouts,         \* number of attempts ended by the timeout
  events            \* the invocations, resets and sleeps, in order

retryVars == << rpc, entry, fails, condition, retriesArg, timeLimit, waitArg,
                retries, wait, pendingCounts, outstanding, attemptError, outcome,
                invocations, conditionEvals, timeouts, events >>

(***************************************************************************)
(* DeploymentManager: contracts, contract, deploy, clone, existing, spider *)
(***************************************************************************)
VARIABLES
  dm,               \* the manager: counter, contractsCache and its cache's roots, aliases, proxies
  chain,            \* the network: the addresses that hold code, the next address a deployment gets
  ncalls,           \* number of calls made on the manager
  \* ---- history ----------------------------------------------------------
  crawled,          \* the contracts map the last crawl built
  deployedArg,      \* what the last call handed to spider(deployed)
  deployLog,        \* how each _deploy / _deployBuild call ended, in order
  lastCall          \* the last call made on the manager and how it settled

deployVars == << dm, chain, ncalls, crawled, deployedArg, deployLog, lastCall >>

(***************************************************************************)
(* Spider: one crawl, step by step                                         *)
(***************************************************************************)
VARIABLES
  cpc,              \* position of spider(): "start", "crawling", "returned", "threw", "diverging"
  relations,        \* the relation config map: key -> config
  spiderRoots,      \* the roots handed to spider
  netCode,          \* the network as read so far: address -> name of the contract there, "" for none
  netField,         \* the network as read so far: <<address, field>> -> the addresses the field holds
  ri,               \* index of the root being crawled
  stack,            \* the crawl calls in progress, innermost last
  returnedAlias,    \* <<alias>> a crawl call has just returned to its caller, else << >>
  aliases,          \* spider's aliases map
  proxies,          \* spider's proxies map
  contractMap,      \* spider's contracts map
  context,          \* spider's context: relation key -> the contracts found under it
  spiderResult,     \* <<result>> once spider has returned, else << >>
  spiderError,      \* the error spider rejected with, else ""
  \* ---- history ----------------------------------------------------------
  run,              \* which run of spider this is: 1 or 2
  firstRun,         \* <<result>> of the first run once the second has started, else << >>
  stored,           \* the last maybeStore call: its arguments, the map before and after, the outcome
  reads             \* the nodes processed and what their delegates and relations read, in order

crawlVars == << cpc, relations, spiderRoots, netCode, netField, ri, stack, returnedAlias, aliases,
                proxies, contractMap, context, spiderResult, spiderError, run,
                firstRun, stored, reads >>

(***************************************************************************)
(* runScenarios: the loop over bases and scenarios                         *)
(***************************************************************************)
VARIABLES
  spc,              \* position of runScenarios: "start", "base", "scenario", "running", "reported", "aborted"
  bases,            \* the bases handed to runScenarios
  runningScenarios, \* the scenarios the loader gives to run
  skippedScenarios, \* the scenarios the loader gives to skip
  baseIdx,          \* index of the base of the outer loop
  scenIdx,          \* index of the running scenario of the inner loop
  allResults,       \* runScenarios' results list, over all bases
  \* ---- history ----------------------------------------------------------
  ranLog,           \* the <<base, scenario>> of every runner.run call, in order
  workerErrors      \* number of errors logged by the catch of line 192

scenariosVars == << spc, bases, runningScenarios, skippedScenarios, baseIdx, scenIdx,
                    allResults, ranLog, workerErrors >>

(***************************************************************************)
(* Comet: the pause flags, as the Pause Guardian tests exercise them       *)
(***************************************************************************)
VARIABLES
  ppc,              \* "ready" once makeProtocol has deployed the protocol, "idle" otherwise
  pauseFlags,       \* the contract's pause flags, one bit per action
  pauseCalls,       \* number of pause calls made
  \* ---- history ----------------------------------------------------------
  lastPause         \* the last pause call: sender, arguments, flags before it, outcome

pauseVars == << ppc, pauseFlags, pauseCalls, lastPause >>

(***************************************************************************)
(* DeploymentManager: the managed signers                                  *)
(***************************************************************************)
VARIABLES
  gpc,              \* "ready" for a constructed manager, "idle" otherwise
  providerSigners,  \* the addresses of hre.ethers.getSigners(), in order
  managedSigners,   \* this._signers: the managed wrappers, in order
  wrappersMade,     \* number of managed wrappers created
  signerCalls,      \* number of getSigners / getSigner calls made
  \* ---- history ----------------------------------------------------------
  defaultReturned   \* what each getSigner() call without address returned, in order

signerVars == << gpc, providerSigners, managedSigners, wrappersMade, signerCalls,
                 defaultReturned >>

(***************************************************************************)
(* The mumbai/usdc deploy script, run on a manager                         *)
(***************************************************************************)
VARIABLES
  kpc,              \* "running", "returned", "threw"; "idle" when not exercised
  step,             \* the statement of the script to run next
  scriptRun,        \* 1 for the first run of deploy(), 2 for the second
  cacheIsMap,       \* the manager's contractsCache is a Map (else undefined)
  held,             \* the aliases the manager's contract map holds
  scriptCounter,    \* the manager's counter
  conditionsNow,    \* what each idempotent() condition resolves to in this run
  initializeOk,     \* the initialize transaction of this run is not reverted
  \* ---- history ----------------------------------------------------------
  heldAtStart,      \* held when this run started
  counterAtStart,   \* counter when this run started
  issued            \* the deployments, clones and transactions of this run, in order

scriptVars == << kpc, step, scriptRun, cacheIsMap, held, scriptCounter, conditionsNow,
                 initializeOk, heldAtStart, counterAtStart, issued >>

notRunnerVars ==
  << retryVars, deployVars, crawlVars, scenariosVars, pauseVars, signerVars, scriptVars >>
notRetryVars ==
  << runnerVars, deployVars, crawlVars, scenariosVars, pauseVars, signerVars, scriptVars >>
notDeployVars ==
  << runnerVars, retryVars, crawlVars, scenariosVars, pauseVars, signerVars, scriptVars >>
notCrawlVars ==
  << runnerVars, retryVars, deployVars, scenariosVars, pauseVars, signerVars, scriptVars >>
notScenariosVars ==
  << runnerVars, retryVars, deployVars, crawlVars, pauseVars, signerVars, scriptVars >>
notPauseVars ==
  << runnerVars, retryVars, deployVars, crawlVars, scenariosVars, signerVars, scriptVars >>
notSignerVars ==
  << runnerVars, retryVars, deployVars, crawlVars, scenariosVars, pauseVars, scriptVars >>
notScriptVars ==
  << runnerVars, retryVars, deployVars, crawlVars, scenariosVars, pauseVars, signerVars >>

vars == << runnerVars, retryVars, deployVars, crawlVars, scenariosVars, pauseVars,
          signerVars, scriptVars >>

(***************************************************************************)
(* Values.                                                                 *)
(***************************************************************************)
Null == "null"
Undefined == "undefined"
\* what solutions, checks and properties throw: Error objects
Errors == {"Error", "AssertionError"}

\* a function with one more argument
Extend(f, k, v) == [x \in DOMAIN f \cup {k} |-> IF x = k THEN v ELSE f[x]]

\* JavaScript truthiness of the values the model uses
Truthy(v) == v \notin {Null, Undefined}

\* a solution: the k-th solution of constraint c
Sol(c, k) == [c |-> c, k |-> k]

\* Runner.ts identity: the solution that returns its context
identity == [c |-> 0, k |-> 0]

\* what a constraint's solve may resolve to: null, undefined, one solution,
\* or a list of 0..MaxSols solutions
SolveResults(c) ==
  {[kind |-> "null", sols |-> <<>>], [kind |-> "undefined", sols |-> <<>>],
   [kind |-> "one", sols |-> <<Sol(c, 1)>>]}
  \cup {[kind |-> "list", sols |-> [k \in 1..n |-> Sol(c, k)]] : n \in 0..MaxSols}

\* asList: [].concat(v)
asList(v) == IF v.kind = "one" THEN <<v.sols[1]>> ELSE v.sols

\* mapSolution without the null test of line 29: asList for every value
mapSolutionNoIdentity(s) == asList(s)

\* mapSolution: null (or undefined, by ==) becomes [identity]
mapSolution(s) ==
  IF s.kind \in {"null", "undefined"} THEN <<identity>> ELSE asList(s)

\* combos: the sequence the generator yields
RECURSIVE PrefixAll(_, _)
PrefixAll(option, cs) ==
  IF cs = <<>> THEN <<>>
  ELSE << <<option>> \o Head(cs) >> \o PrefixAll(option, Tail(cs))

RECURSIVE OverOptions(_, _)
OverOptions(options, rest) ==
  IF options = <<>> THEN <<>>
  ELSE PrefixAll(Head(options), rest) \o OverOptions(Tail(options), rest)

RECURSIVE combos(_)
\* combos with the inner loop cut to the first combination of the rest
combosFirstOfRest(choices) ==
  IF Len(choices) = 0 THEN << << >> >>
  ELSE LET rest == combos(Tail(choices))
       IN  OverOptions(choices[1], IF rest = << >> THEN << >> ELSE << Head(rest) >>)

\* combos without the yield of the empty combination
combosNoBase(choices) ==
  IF Len(choices) = 0 THEN << >>
  ELSE OverOptions(choices[1], combos(Tail(choices)))

combos(choices) ==
  IF Len(choices) = 0 THEN << <<>> >>
  ELSE OverOptions(choices[1], combos(Tail(choices)))

\* const { constraints = [] } = scenario
constraints == IF scenario.constraints = "absent" THEN 0 ELSE scenario.n

\* generateResult: error is err || null
generateResult(n, err) ==
  [error |-> IF Truthy(err) THEN err ELSE Null, numSolutionSets |-> n]

(***************************************************************************)
(* The world's snapshot primitives.                                        *)
(***************************************************************************)
\* world._snapshot(): saves the state under a fresh handle
SnapshotTaken(w) == [h \in DOMAIN snapshots \cup {nextSnap} |->
                       IF h = nextSnap THEN w ELSE snapshots[h]]

\* the state world._revertAndSnapshot(h) restores
Reverted(h) == snapshots[h]

\* the snapshots left after reverting to h and snapshotting again: h and the
\* later ones are consumed, the restored state is saved under a fresh handle
RevertedSnapshots(h) ==
  [g \in {x \in DOMAIN snapshots : x < h} \cup {nextSnap} |->
     IF g = nextSnap THEN Reverted(h) ELSE snapshots[g]]

\* an operation of the run changes the chain, or does not
Effect(kind, n) == {{}, {<<kind, n>>}}

(***************************************************************************)
(* Runner.run                                                              *)
(***************************************************************************)
RunnerStart ==
  /\ pc = "start"
  /\ scenario \in {[constraints |-> "absent", n |-> 0]}
                  \cup {[constraints |-> "given", n |-> n] : n \in 0..MaxConstraints}
  /\ world = {}
  /\ snapshots = << >>
  /\ nextSnap = 1
  /\ worldSnapshot = 0
  /\ numSolutionSets = 0
  /\ pending = {}
  /\ solutionChoices = << >>
  /\ comboList = << >>
  /\ ci = 0
  /\ ctx = << >>
  /\ si = 0
  /\ ki = 0
  /\ caught = << >>
  /\ returning = << >>
  /\ result = << >>
  /\ rejection = << >>
  /\ results = << >>
  /\ trials = 0
  /\ reverts = 0
  /\ revertArgOk = TRUE
  /\ executed = << >>
  /\ touched = {}
  /\ solveCalls = [c \in 1..MaxConstraints |-> 0]
  /\ solved = << >>
  /\ thrownAt = << >>

\* the runner when another component is exercised
RunnerIdle ==
  /\ pc = "idle"
  /\ scenario = [constraints |-> "absent", n |-> 0]
  /\ world = {}
  /\ snapshots = << >>
  /\ nextSnap = 1
  /\ worldSnapshot = 0
  /\ numSolutionSets = 0
  /\ pending = {}
  /\ solutionChoices = << >>
  /\ comboList = << >>
  /\ ci = 0
  /\ ctx = << >>
  /\ si = 0
  /\ ki = 0
  /\ caught = << >>
  /\ returning = << >>
  /\ result = << >>
  /\ rejection = << >>
  /\ results = << >>
  /\ trials = 0
  /\ reverts = 0
  /\ revertArgOk = TRUE
  /\ executed = << >>
  /\ touched = {}
  /\ solveCalls = [c \in 1..MaxConstraints |-> 0]
  /\ solved = << >>
  /\ thrownAt = << >>


\* line 75: let worldSnapshot = await world._snapshot()
Snapshot ==
  /\ pc = "start"
  /\ snapshots' = SnapshotTaken(world)
  /\ worldSnapshot' = nextSnap
  /\ nextSnap' = nextSnap + 1
  /\ pc' = "init"
  /\ UNCHANGED notRunnerVars
  /\ UNCHANGED << scenario, world, numSolutionSets, pending, solutionChoices,
                  comboList, ci, ctx, si, ki, caught, returning, result,
                  rejection, results, trials, reverts, revertArgOk, executed,
                  touched, solveCalls, solved, thrownAt >>

\* lines 78-79: const context = await getContext(world)
InitialContext ==
  /\ pc = "init"
  /\ \E e \in Effect("init", 0) : world' = world \cup e
  /\ pc' = "solve"
  /\ UNCHANGED notRunnerVars
  /\ UNCHANGED << scenario, snapshots, nextSnap, worldSnapshot, numSolutionSets,
                  pending, solutionChoices, comboList, ci, ctx, si, ki, caught,
                  returning, result, rejection, results, trials, reverts,
                  revertArgOk, executed, touched, solveCalls, solved, thrownAt >>

\* line 79, the initializer throws: nothing catches it, run rejects
InitialContextThrows ==
  /\ pc = "init"
  /\ \E e \in Errors : rejection' = <<e>>
  /\ thrownAt' = <<"initializer", 0>>
  /\ pc' = "rejected"
  /\ UNCHANGED notRunnerVars
  /\ UNCHANGED << scenario, world, snapshots, nextSnap, worldSnapshot,
                  numSolutionSets, pending, solutionChoices, comboList, ci, ctx,
                  si, ki, caught, returning, result, results, trials, reverts,
                  revertArgOk, executed, touched, solveCalls, solved >>

\* lines 83-85: constraints.map((c) => c.solve(...)) issues every solve call
SolveCalls ==
  /\ pc = "solve"
  /\ pending' = 1..constraints
  /\ solved' = << >>
  /\ solveCalls' = [c \in DOMAIN solveCalls |->
                      IF c \in 1..constraints THEN solveCalls[c] + 1 ELSE solveCalls[c]]
  /\ solutionChoices' = [c \in 1..constraints |-> << >>]
  /\ pc' = "await"
  /\ UNCHANGED notRunnerVars
  /\ UNCHANGED << scenario, world, snapshots, nextSnap, worldSnapshot,
                  numSolutionSets, comboList, ci, ctx, si, ki, caught, returning,
                  result, rejection, results, trials, reverts, revertArgOk,
                  executed, touched, thrownAt >>

\* line 84: one pending solve resolves; .then(mapSolution) maps its value
SolveResolves(c) ==
  /\ pc = "await"
  /\ c \in pending
  /\ \E s \in SolveResults(c) :
       /\ solutionChoices' = [solutionChoices EXCEPT ![c] = mapSolution(s)]
       /\ solved' = Extend(solved, c, s)
  /\ \E e \in Effect("solve", 0) : world' = world \cup e
  /\ pending' = pending \ {c}
  /\ UNCHANGED notRunnerVars
  /\ UNCHANGED << pc, scenario, snapshots, nextSnap, worldSnapshot,
                  numSolutionSets, comboList, ci, ctx, si, ki, caught, returning,
                  result, rejection, results, trials, reverts, revertArgOk,
                  executed, touched, solveCalls, thrownAt >>

\* line 83-85: a solve rejects, Promise.all rejects, nothing catches it
SolveThrows(c) ==
  /\ pc = "await"
  /\ c \in pending
  /\ \E e \in Errors : rejection' = <<e>>
  /\ \E e \in Effect("solve", 0) : world' = world \cup e
  /\ pending' = pending \ {c}
  /\ thrownAt' = <<"solve", 0>>
  /\ pc' = "rejected"
  /\ UNCHANGED notRunnerVars
  /\ UNCHANGED << scenario, snapshots, nextSnap, worldSnapshot, numSolutionSets,
                  solutionChoices, comboList, ci, ctx, si, ki, caught, returning,
                  result, results, trials, reverts, revertArgOk, executed,
                  touched, solveCalls, solved >>

\* the enumeration started as soon as one solve has resolved, the others
\* still pending
EnumerateEarly ==
  /\ pc = "await"
  /\ pending # 1..constraints \/ pending = {}
  /\ comboList' = combos(<< <<identity>> >> \o solutionChoices)
  /\ ci' = 1
  /\ pc' = IF comboList' = << >> THEN "return" ELSE "ctx"
  /\ UNCHANGED notRunnerVars
  /\ UNCHANGED << scenario, world, snapshots, nextSnap, worldSnapshot,
                  numSolutionSets, pending, solutionChoices, ctx, si, ki, caught,
                  returning, result, rejection, results, trials, reverts,
                  revertArgOk, executed, touched, solveCalls, solved, thrownAt >>

\* lines 86-89: the generator over [[identity], ...solutionChoices] is created
Enumerate ==
  /\ pc = "await"
  /\ pending = {}
  /\ comboList' = combos(<< <<identity>> >> \o solutionChoices)
  /\ ci' = 1
  /\ pc' = IF comboList' = << >> THEN "return" ELSE "ctx"
  /\ UNCHANGED notRunnerVars
  /\ UNCHANGED << scenario, world, snapshots, nextSnap, worldSnapshot,
                  numSolutionSets, pending, solutionChoices, ctx, si, ki, caught,
                  returning, result, rejection, results, trials, reverts,
                  revertArgOk, executed, touched, solveCalls, solved, thrownAt >>

\* the combination of the trial under way
combo == comboList[ci]

\* a trial going on to the property without the loop of lines 99-101
AfterSolutionsNoChecks == "property"

\* where a trial goes once its solutions are applied: lines 99-104
AfterSolutions == IF constraints = 0 THEN "property" ELSE "check"

\* line 91: let ctx = await getContext(world), outside the try block
TrialContext ==
  /\ pc = "ctx"
  /\ trials' = trials + 1
  /\ ctx' = << >>
  /\ \E e \in Effect("trial", ci) : world' = world \cup e
  /\ si' = 1
  /\ ki' = 1
  /\ pc' = "apply"
  /\ UNCHANGED notRunnerVars
  /\ UNCHANGED << scenario, snapshots, nextSnap, worldSnapshot, numSolutionSets,
                  pending, solutionChoices, comboList, ci, caught, returning,
                  result, rejection, results, reverts, revertArgOk, executed,
                  touched, solveCalls, solved, thrownAt >>

\* line 91, the initializer throws: outside the try, so run rejects at once
TrialContextThrows ==
  /\ pc = "ctx"
  /\ trials' = trials + 1
  /\ \E e \in Errors : rejection' = <<e>>
  /\ thrownAt' = <<"context", ci>>
  /\ pc' = "rejected"
  /\ UNCHANGED notRunnerVars
  /\ UNCHANGED << scenario, world, snapshots, nextSnap, worldSnapshot,
                  numSolutionSets, pending, solutionChoices, comboList, ci, ctx,
                  si, ki, caught, returning, result, results, reverts,
                  revertArgOk, executed, touched, solveCalls, solved >>

\* lines 95-97: ctx = (await solution(ctx, world)) || ctx
ApplySolution ==
  /\ pc = "apply"
  /\ \E ret \in (IF combo[si] = identity THEN {"ctx"} ELSE {"new", "nothing"}) :
       ctx' = IF ret = "new" THEN Append(ctx, combo[si]) ELSE ctx
  /\ \E e \in Effect("trial", ci) : world' = world \cup e
  /\ touched' = touched \cup {ci}
  /\ si' = si + 1
  /\ pc' = IF si = Len(combo) THEN AfterSolutions ELSE "apply"
  /\ UNCHANGED notRunnerVars
  /\ UNCHANGED << scenario, snapshots, nextSnap, worldSnapshot, numSolutionSets,
                  pending, solutionChoices, comboList, ci, ki, caught, returning,
                  result, rejection, results, trials, reverts, revertArgOk,
                  executed, solveCalls, solved, thrownAt >>

\* lines 95-97, the solution throws: caught at line 109
ApplySolutionThrows ==
  /\ pc = "apply"
  /\ combo[si] # identity
  /\ \E e \in Errors : caught' = <<e>>
  /\ \E e \in Effect("trial", ci) : world' = world \cup e
  /\ touched' = touched \cup {ci}
  /\ thrownAt' = <<"solution", ci>>
  /\ pc' = "catch"
  /\ UNCHANGED notRunnerVars
  /\ UNCHANGED << scenario, snapshots, nextSnap, worldSnapshot, numSolutionSets,
                  pending, solutionChoices, comboList, ci, ctx, si, ki, returning,
                  result, rejection, results, trials, reverts, revertArgOk,
                  executed, solveCalls, solved >>

\* lines 99-101: await constraint.check(scenario.requirements, ctx, world)
CheckConstraint ==
  /\ pc = "check"
  /\ \E e \in Effect("trial", ci) : world' = world \cup e
  /\ touched' = touched \cup {ci}
  /\ ki' = ki + 1
  /\ pc' = IF ki = constraints THEN "property" ELSE "check"
  /\ UNCHANGED notRunnerVars
  /\ UNCHANGED << scenario, snapshots, nextSnap, worldSnapshot, numSolutionSets,
                  pending, solutionChoices, comboList, ci, ctx, si, caught,
                  returning, result, rejection, results, trials, reverts,
                  revertArgOk, executed, solveCalls, solved, thrownAt >>

\* lines 99-101, the check throws: caught at line 109
CheckConstraintThrows ==
  /\ pc = "check"
  /\ \E e \in Errors : caught' = <<e>>
  /\ touched' = touched \cup {ci}
  /\ thrownAt' = <<"check", ci>>
  /\ pc' = "catch"
  /\ UNCHANGED notRunnerVars
  /\ UNCHANGED << scenario, world, snapshots, nextSnap, worldSnapshot,
                  numSolutionSets, pending, solutionChoices, comboList, ci, ctx,
                  si, ki, returning, result, rejection, results, trials, reverts,
                  revertArgOk, executed, solveCalls, solved >>

\* lines 104-108: the property runs and returns; numSolutionSets++
Property ==
  /\ pc = "property"
  /\ \E e \in Effect("trial", ci) : world' = world \cup e
  /\ executed' = Append(executed, combo)
  /\ touched' = touched \cup {ci}
  /\ numSolutionSets' = numSolutionSets + 1
  /\ pc' = "finally"
  /\ UNCHANGED notRunnerVars
  /\ UNCHANGED << scenario, snapshots, nextSnap, worldSnapshot, pending,
                  solutionChoices, comboList, ci, ctx, si, ki, caught, returning,
                  result, rejection, results, trials, reverts, revertArgOk,
                  solveCalls, solved, thrownAt >>

\* line 104, the property throws: caught at line 109
PropertyThrows ==
  /\ pc = "property"
  /\ \E e \in Errors : caught' = <<e>>
  /\ \E e \in Effect("trial", ci) : world' = world \cup e
  /\ executed' = Append(executed, combo)
  /\ touched' = touched \cup {ci}
  /\ thrownAt' = <<"property", ci>>
  /\ pc' = "catch"
  /\ UNCHANGED notRunnerVars
  /\ UNCHANGED << scenario, snapshots, nextSnap, worldSnapshot, numSolutionSets,
                  pending, solutionChoices, comboList, ci, ctx, si, ki, returning,
                  result, rejection, results, trials, reverts, revertArgOk,
                  solveCalls, solved >>

\* line 104, scenario.env.transformer(ctx) throws: the property is not called
TransformerThrows ==
  /\ pc = "property"
  /\ \E e \in Errors : caught' = <<e>>
  /\ thrownAt' = <<"transformer", ci>>
  /\ pc' = "catch"
  /\ UNCHANGED notRunnerVars
  /\ UNCHANGED << scenario, world, snapshots, nextSnap, worldSnapshot,
                  numSolutionSets, pending, solutionChoices, comboList, ci, ctx,
                  si, ki, returning, result, rejection, results, trials, reverts,
                  revertArgOk, executed, touched, solveCalls, solved >>

\* the catch block with numSolutionSets passed without the increment
CatchNoIncrement ==
  /\ pc = "catch"
  /\ numSolutionSets' = numSolutionSets
  /\ returning' = << generateResult(numSolutionSets, caught[1]) >>
  /\ pc' = "finally"
  /\ UNCHANGED notRunnerVars
  /\ UNCHANGED << scenario, world, snapshots, nextSnap, worldSnapshot, pending,
                  solutionChoices, comboList, ci, ctx, si, ki, caught, result,
                  rejection, results, trials, reverts, revertArgOk, executed,
                  touched, solveCalls, solved, thrownAt >>

\* lines 109-111: return this.generateResult(..., ++numSolutionSets, e)
Catch ==
  /\ pc = "catch"
  /\ numSolutionSets' = numSolutionSets + 1
  /\ returning' = << generateResult(numSolutionSets + 1, caught[1]) >>
  /\ pc' = "finally"
  /\ UNCHANGED notRunnerVars
  /\ UNCHANGED << scenario, world, snapshots, nextSnap, worldSnapshot, pending,
                  solutionChoices, comboList, ci, ctx, si, ki, caught, result,
                  rejection, results, trials, reverts, revertArgOk, executed,
                  touched, solveCalls, solved, thrownAt >>

\* lines 112-114: worldSnapshot = await world._revertAndSnapshot(worldSnapshot),
\* then the pending return, or the next combination of the generator
Finally ==
  /\ pc = "finally"
  /\ reverts' = reverts + 1
  /\ revertArgOk' = (revertArgOk /\ worldSnapshot = nextSnap - 1)
  /\ world' = Reverted(worldSnapshot)
  /\ snapshots' = RevertedSnapshots(worldSnapshot)
  /\ worldSnapshot' = nextSnap
  /\ nextSnap' = nextSnap + 1
  /\ IF returning # << >>
       THEN /\ result' = returning
            /\ pc' = "done"
            /\ ci' = ci
       ELSE /\ result' = result
            /\ ci' = ci + 1
            /\ pc' = IF ci < Len(comboList) THEN "ctx" ELSE "return"
  /\ UNCHANGED notRunnerVars
  /\ UNCHANGED << scenario, numSolutionSets, pending, solutionChoices, comboList,
                  ctx, si, ki, caught, returning, rejection, results, trials,
                  executed, touched, solveCalls, solved, thrownAt >>

\* line 117: return this.generateResult(base, scenario, startTime, cumulativeGas, numSolutionSets)
ReturnSuccess ==
  /\ pc = "return"
  /\ result' = << generateResult(numSolutionSets, Undefined) >>
  /\ pc' = "done"
  /\ UNCHANGED notRunnerVars
  /\ UNCHANGED << scenario, world, snapshots, nextSnap, worldSnapshot,
                  numSolutionSets, pending, solutionChoices, comboList, ci, ctx,
                  si, ki, caught, returning, rejection, results, trials, reverts,
                  revertArgOk, executed, touched, solveCalls, solved, thrownAt >>

\* runScenarios, lines 184-191: the Result is pushed onto results
PushResult ==
  /\ pc = "done"
  /\ results' = Append(results, result[1])
  /\ pc' = "pushed"
  /\ UNCHANGED notRunnerVars
  /\ UNCHANGED << scenario, world, snapshots, nextSnap, worldSnapshot,
                  numSolutionSets, pending, solutionChoices, comboList, ci, ctx,
                  si, ki, caught, returning, result, rejection, trials, reverts,
                  revertArgOk, executed, touched, solveCalls, solved, thrownAt >>

\* runScenarios, lines 192-194: an error escaping run is logged, nothing is pushed
WorkerError ==
  /\ pc = "rejected"
  /\ pc' = "logged"
  /\ UNCHANGED notRunnerVars
  /\ UNCHANGED << scenario, world, snapshots, nextSnap, worldSnapshot,
                  numSolutionSets, pending, solutionChoices, comboList, ci, ctx,
                  si, ki, caught, returning, result, rejection, results, trials,
                  reverts, revertArgOk, executed, touched, solveCalls, solved, thrownAt >>

NextRunner ==
  \/ Snapshot
  \/ InitialContext
  \/ InitialContextThrows
  \/ SolveCalls
  \/ \E c \in 1..MaxConstraints : SolveResolves(c)
  \/ \E c \in 1..MaxConstraints : SolveThrows(c)
  \/ Enumerate
  \/ TrialContext
  \/ TrialContextThrows
  \/ ApplySolution
  \/ ApplySolutionThrows
  \/ CheckConstraint
  \/ CheckConstraintThrows
  \/ Property
  \/ PropertyThrows
  \/ TransformerThrows
  \/ Catch
  \/ Finally
  \/ ReturnSuccess
  \/ PushResult
  \/ WorkerError

(***************************************************************************)
(* runScenarios                                                            *)
(***************************************************************************)
MaxBases == 2
MaxScenarios == 2
MaxSkipped == 1

BaseNames(n) == [i \in 1..n |-> "base" \o ToString(i)]
ScenarioNames(n) == [i \in 1..n |-> "scenario" \o ToString(i)]
SkippedNames(n) == [i \in 1..n |-> "skipped" \o ToString(i)]

\* the Results runner.run can return: no error after at least one trial, no
\* error with an empty solution space, the error of the failing trial
RunResults ==
  {generateResult(1, Undefined), generateResult(0, Undefined)}
  \cup {generateResult(1, e) : e \in Errors}

\* lines 167-174: the Result of a skipped scenario
SkippedResult(base, name) ==
  [base |-> base, scenario |-> name, skipped |-> TRUE, error |-> Undefined,
   numSolutionSets |-> 0]

\* what Runner.generateResult adds to a Result: base and scenario
RanResult(base, name, res) ==
  [base |-> base, scenario |-> name, skipped |-> FALSE, error |-> res.error,
   numSolutionSets |-> res.numSolutionSets]

ScenariosStart ==
  /\ spc = "start"
  /\ bases \in {BaseNames(n) : n \in 0..MaxBases}
  /\ runningScenarios \in {ScenarioNames(n) : n \in 0..MaxScenarios}
  /\ skippedScenarios \in {SkippedNames(n) : n \in 0..MaxSkipped}
  /\ baseIdx = 1
  /\ scenIdx = 1
  /\ allResults = << >>
  /\ ranLog = << >>
  /\ workerErrors = 0

\* runScenarios when another component is exercised
ScenariosIdle ==
  /\ spc = "idle"
  /\ bases = << >>
  /\ runningScenarios = << >>
  /\ skippedScenarios = << >>
  /\ baseIdx = 1
  /\ scenIdx = 1
  /\ allResults = << >>
  /\ ranLog = << >>
  /\ workerErrors = 0

\* lines 150-154: the loader splits the scenarios; results = []
LoadScenarios ==
  /\ spc = "start"
  /\ allResults' = << >>
  /\ baseIdx' = 1
  /\ spc' = "base"
  /\ UNCHANGED << bases, runningScenarios, skippedScenarios, scenIdx, ranLog,
                  workerErrors >>
  /\ UNCHANGED notScenariosVars

\* lines 156-175: the world of the next base is built and deployed, and a
\* Result is pushed for every skipped scenario
SetupBase ==
  /\ spc = "base"
  /\ baseIdx <= Len(bases)
  /\ allResults' = allResults \o
       [i \in DOMAIN skippedScenarios |-> SkippedResult(bases[baseIdx], skippedScenarios[i])]
  /\ scenIdx' = 1
  /\ spc' = "scenario"
  /\ UNCHANGED << bases, runningScenarios, skippedScenarios, baseIdx, ranLog,
                  workerErrors >>
  /\ UNCHANGED notScenariosVars

\* lines 157-164: new World, runDeployScript or the auxiliary spider throws;
\* nothing catches it and runScenarios rejects
SetupBaseThrows ==
  /\ spc = "base"
  /\ baseIdx <= Len(bases)
  /\ spc' = "aborted"
  /\ UNCHANGED << bases, runningScenarios, skippedScenarios, baseIdx, scenIdx,
                  allResults, ranLog, workerErrors >>
  /\ UNCHANGED notScenariosVars

\* lines 177-181: the next running scenario is handed to runner.run
StartRun ==
  /\ spc = "scenario"
  /\ scenIdx <= Len(runningScenarios)
  /\ ranLog' = Append(ranLog, << bases[baseIdx], runningScenarios[scenIdx] >>)
  /\ spc' = "running"
  /\ UNCHANGED << bases, runningScenarios, skippedScenarios, baseIdx, scenIdx,
                  allResults, workerErrors >>
  /\ UNCHANGED notScenariosVars

\* lines 181-190: runner.run returned a Result, failing or not; it is pushed
RunReturns ==
  /\ spc = "running"
  /\ \E res \in RunResults :
       allResults' = Append(allResults,
                            RanResult(bases[baseIdx], runningScenarios[scenIdx], res))
  /\ scenIdx' = scenIdx + 1
  /\ spc' = "scenario"
  /\ UNCHANGED << bases, runningScenarios, skippedScenarios, baseIdx, ranLog,
                  workerErrors >>
  /\ UNCHANGED notScenariosVars

\* the loop without the try of line 180: an error escaping runner.run escapes
\* runScenarios
RunRejectsEscapes ==
  /\ spc = "running"
  /\ spc' = "aborted"
  /\ UNCHANGED << bases, runningScenarios, skippedScenarios, baseIdx, scenIdx,
                  allResults, ranLog, workerErrors >>
  /\ UNCHANGED notScenariosVars

\* lines 191-193: an error escaped runner.run; it is logged and the loop goes on
RunRejects ==
  /\ spc = "running"
  /\ workerErrors' = workerErrors + 1
  /\ scenIdx' = scenIdx + 1
  /\ spc' = "scenario"
  /\ UNCHANGED << bases, runningScenarios, skippedScenarios, baseIdx, allResults,
                  ranLog >>
  /\ UNCHANGED notScenariosVars

\* line 156: the scenarios of the base are done; on to the next base
BaseDone ==
  /\ spc = "scenario"
  /\ scenIdx > Len(runningScenarios)
  /\ baseIdx' = baseIdx + 1
  /\ spc' = "base"
  /\ UNCHANGED << bases, runningScenarios, skippedScenarios, scenIdx, allResults,
                  ranLog, workerErrors >>
  /\ UNCHANGED notScenariosVars

\* line 198: await showReport(results, startTime, Date.now())
ShowReport ==
  /\ spc = "base"
  /\ baseIdx > Len(bases)
  /\ spc' = "reported"
  /\ UNCHANGED << bases, runningScenarios, skippedScenarios, baseIdx, scenIdx,
                  allResults, ranLog, workerErrors >>
  /\ UNCHANGED notScenariosVars

NextScenarios ==
  \/ LoadScenarios
  \/ SetupBase
  \/ SetupBaseThrows
  \/ StartRun
  \/ RunReturns
  \/ RunRejects
  \/ BaseDone
  \/ ShowReport

(***************************************************************************)
(* DeploymentManager.retry and DeploymentManager.idempotent                *)
(***************************************************************************)
\* JavaScript truthiness of what a condition resolves to
ConditionValues == {"true", "object", "false", "0", Undefined, Null}
ConditionTruthy(v) == v \in {"true", "object"}

\* a parameter with a default value
OrDefault(arg, default) == IF arg = << >> THEN default ELSE arg[1]

\* the error the n-th invocation of op rejects with, and the timeout's error
OpError(n) == [kind |-> "op", n |-> n]
TimeoutError(n) == [kind |-> "timeout", n |-> n]

Event(ev, n) == [ev |-> ev, n |-> n]

RetryStart ==
  /\ rpc = "call"
  /\ entry \in {"retry", "idempotent", "_deploy"}
  /\ fails \in 0..MaxFails
  /\ condition \in ConditionValues
  /\ retriesArg \in {<< >>} \cup {<<n>> : n \in 0..MaxRetries}
  /\ timeLimit \in {<< >>, <<1>>}
  /\ waitArg \in {<< >>} \cup {<<w>> : w \in 1..MaxWait}
  \* idempotent passes only the action and retries on to retry; a direct
  \* retry call has no condition
  /\ entry = "idempotent" => (timeLimit = << >> /\ waitArg = << >>)
  /\ entry = "retry" => condition = "true"
  \* _deploy and _deployBuild pass only the deployment and retries on to retry
  /\ entry = "_deploy" => (condition = "true" /\ timeLimit = << >> /\ waitArg = << >>)
  /\ retries = 0
  /\ wait = 0
  /\ \E n \in 0..MaxSigners : pendingCounts = [i \in 1..n |-> 0]
  /\ outstanding = {}
  /\ attemptError = << >>
  /\ outcome = << >>
  /\ invocations = 0
  /\ conditionEvals = 0
  /\ timeouts = 0
  /\ events = << >>

\* the retry layer when another component is exercised
RetryIdle ==
  /\ rpc = "idle"
  /\ entry = "none"
  /\ fails = 0
  /\ condition = "true"
  /\ retriesArg = << >>
  /\ timeLimit = << >>
  /\ waitArg = << >>
  /\ retries = 0
  /\ wait = 0
  /\ pendingCounts = << >>
  /\ outstanding = {}
  /\ attemptError = << >>
  /\ outcome = << >>
  /\ invocations = 0
  /\ conditionEvals = 0
  /\ timeouts = 0
  /\ events = << >>

\* line 610: retry(fn, retries = 5, timeLimit, wait = 250) is entered
RetryCall ==
  /\ rpc = "call"
  /\ entry = "retry"
  /\ retries' = OrDefault(retriesArg, DefaultRetries)
  /\ wait' = OrDefault(waitArg, DefaultWait)
  /\ rpc' = "invoke"
  /\ UNCHANGED notRetryVars
  /\ UNCHANGED << entry, fails, condition, retriesArg, timeLimit, waitArg,
                  pendingCounts, outstanding, attemptError, outcome, invocations,
                  conditionEvals, timeouts, events >>

\* idempotent running the action whatever the condition resolves to
IdempotentIgnoresCondition ==
  /\ rpc = "call"
  /\ entry = "idempotent"
  /\ conditionEvals' = conditionEvals + 1
  /\ retries' = OrDefault(retriesArg, DefaultRetries)
  /\ wait' = OrDefault(<< >>, DefaultWait)
  /\ rpc' = "invoke"
  /\ UNCHANGED notRetryVars
  /\ UNCHANGED << entry, fails, condition, retriesArg, timeLimit, waitArg,
                  pendingCounts, outstanding, attemptError, outcome, invocations,
                  timeouts, events >>

\* lines 363-365: if (await condition()) return this.retry(action, retries)
IdempotentCondition ==
  /\ rpc = "call"
  /\ entry = "idempotent"
  /\ conditionEvals' = conditionEvals + 1
  /\ IF ConditionTruthy(condition)
       THEN /\ retries' = OrDefault(retriesArg, DefaultRetries)
            /\ wait' = OrDefault(<< >>, DefaultWait)
            /\ rpc' = "invoke"
            /\ outcome' = outcome
       ELSE /\ outcome' = <<"resolved", Undefined>>
            /\ rpc' = "settled"
            /\ UNCHANGED << retries, wait >>
  /\ UNCHANGED notRetryVars
  /\ UNCHANGED << entry, fails, condition, retriesArg, timeLimit, waitArg,
                  pendingCounts, outstanding, attemptError, invocations,
                  timeouts, events >>

\* line 363, condition() rejects: idempotent rejects with its error
IdempotentConditionThrows ==
  /\ rpc = "call"
  /\ entry = "idempotent"
  /\ conditionEvals' = conditionEvals + 1
  /\ outcome' = <<"rejected", "condition error">>
  /\ rpc' = "settled"
  /\ UNCHANGED notRetryVars
  /\ UNCHANGED << entry, fails, condition, retriesArg, timeLimit, waitArg,
                  retries, wait, pendingCounts, outstanding, attemptError,
                  invocations, timeouts, events >>

\* line 612: fn() is invoked; the op may send a transaction through a managed
\* signer, which raises that signer's pending count
Invoke ==
  /\ rpc = "invoke"
  /\ invocations' = invocations + 1
  /\ outstanding' = outstanding \cup {invocations + 1}
  /\ events' = Append(events, Event("invoke", invocations + 1))
  /\ \E s \in {0} \cup DOMAIN pendingCounts :
       pendingCounts' = [i \in DOMAIN pendingCounts |->
                           IF i = s THEN 1 ELSE pendingCounts[i]]
  /\ rpc' = "awaiting"
  /\ UNCHANGED notRetryVars
  /\ UNCHANGED << entry, fails, condition, retriesArg, timeLimit, waitArg,
                  retries, wait, attemptError, outcome, conditionEvals, timeouts >>

\* line 612: the attempt resolves and retry returns its value
AttemptResolves ==
  /\ rpc = "awaiting"
  /\ invocations > fails
  /\ outstanding' = outstanding \ {invocations}
  /\ outcome' = <<"resolved", "value">>
  /\ rpc' = "settled"
  /\ UNCHANGED notRetryVars
  /\ UNCHANGED << entry, fails, condition, retriesArg, timeLimit, waitArg,
                  retries, wait, pendingCounts, attemptError, invocations,
                  conditionEvals, timeouts, events >>

\* lines 612-613: the attempt rejects and the error is caught
AttemptRejects ==
  /\ rpc = "awaiting"
  /\ invocations <= fails
  /\ outstanding' = outstanding \ {invocations}
  /\ attemptError' = << OpError(invocations) >>
  /\ rpc' = "catch"
  /\ UNCHANGED notRetryVars
  /\ UNCHANGED << entry, fails, condition, retriesArg, timeLimit, waitArg,
                  retries, wait, pendingCounts, outcome, invocations,
                  conditionEvals, timeouts, events >>

\* line 612: asyncCallWithTimeout rejects after timeLimit; the op is left running
AttemptTimesOut ==
  /\ rpc = "awaiting"
  /\ timeLimit # << >>
  /\ timeouts < MaxTimeouts
  /\ timeouts' = timeouts + 1
  /\ attemptError' = << TimeoutError(invocations) >>
  /\ rpc' = "catch"
  /\ UNCHANGED notRetryVars
  /\ UNCHANGED << entry, fails, condition, retriesArg, timeLimit, waitArg,
                  retries, wait, pendingCounts, outstanding, outcome,
                  invocations, conditionEvals, events >>

\* an invocation abandoned by the timeout settles on its own
AbandonedSettles(n) ==
  /\ n \in outstanding
  /\ ~(rpc = "awaiting" /\ n = invocations)
  /\ outstanding' = outstanding \ {n}
  /\ UNCHANGED notRetryVars
  /\ UNCHANGED << rpc, entry, fails, condition, retriesArg, timeLimit, waitArg,
                  retries, wait, pendingCounts, attemptError, outcome,
                  invocations, conditionEvals, timeouts, events >>

\* the catch block rethrowing a timeout at once, whatever budget is left
CatchRethrowTimeout ==
  /\ rpc = "catch"
  /\ retries = 0 \/ attemptError[1].kind = "timeout"
  /\ outcome' = <<"rejected", attemptError[1]>>
  /\ rpc' = "settled"
  /\ UNCHANGED notRetryVars
  /\ UNCHANGED << entry, fails, condition, retriesArg, timeLimit, waitArg,
                  retries, wait, pendingCounts, outstanding, attemptError,
                  invocations, conditionEvals, timeouts, events >>

\* line 614: if (retries === 0) throw e
CatchRethrow ==
  /\ rpc = "catch"
  /\ retries = 0
  /\ outcome' = <<"rejected", attemptError[1]>>
  /\ rpc' = "settled"
  /\ UNCHANGED notRetryVars
  /\ UNCHANGED << entry, fails, condition, retriesArg, timeLimit, waitArg,
                  retries, wait, pendingCounts, outstanding, attemptError,
                  invocations, conditionEvals, timeouts, events >>

\* the catch block without the retries === 0 test before it
CatchResetAlways ==
  /\ rpc = "catch"
  /\ pendingCounts' = [i \in DOMAIN pendingCounts |-> 0]
  /\ events' = Append(events, Event("reset", retries))
  /\ rpc' = "sleep"
  /\ UNCHANGED notRetryVars
  /\ UNCHANGED << entry, fails, condition, retriesArg, timeLimit, waitArg,
                  retries, wait, outstanding, attemptError, outcome, invocations,
                  conditionEvals, timeouts >>

\* lines 616-617 and 335-338: warn, then reset every known signer's pending count
CatchReset ==
  /\ rpc = "catch"
  /\ retries # 0
  /\ pendingCounts' = [i \in DOMAIN pendingCounts |-> 0]
  /\ events' = Append(events, Event("reset", retries))
  /\ rpc' = "sleep"
  /\ UNCHANGED notRetryVars
  /\ UNCHANGED << entry, fails, condition, retriesArg, timeLimit, waitArg,
                  retries, wait, outstanding, attemptError, outcome, invocations,
                  conditionEvals, timeouts >>

\* line 619: await new Promise(ok => setTimeout(ok, wait))
Sleep ==
  /\ rpc = "sleep"
  /\ events' = Append(events, Event("sleep", wait))
  /\ rpc' = "recurse"
  /\ UNCHANGED notRetryVars
  /\ UNCHANGED << entry, fails, condition, retriesArg, timeLimit, waitArg,
                  retries, wait, pendingCounts, outstanding, attemptError,
                  outcome, invocations, conditionEvals, timeouts >>

\* the recursive call passing retries on without the decrement
RecurseKeepsBudget ==
  /\ rpc = "recurse"
  /\ retries' = retries
  /\ wait' = wait * 2
  /\ attemptError' = << >>
  /\ rpc' = "invoke"
  /\ UNCHANGED notRetryVars
  /\ UNCHANGED << entry, fails, condition, retriesArg, timeLimit, waitArg,
                  pendingCounts, outstanding, outcome, invocations,
                  conditionEvals, timeouts, events >>

\* the recursive call passing wait on without doubling it
RecurseSameWait ==
  /\ rpc = "recurse"
  /\ retries' = retries - 1
  /\ wait' = wait
  /\ attemptError' = << >>
  /\ rpc' = "invoke"
  /\ UNCHANGED notRetryVars
  /\ UNCHANGED << entry, fails, condition, retriesArg, timeLimit, waitArg,
                  pendingCounts, outstanding, outcome, invocations,
                  conditionEvals, timeouts, events >>

\* line 620: return this.retry(fn, retries - 1, timeLimit, wait * 2)
Recurse ==
  /\ rpc = "recurse"
  /\ retries' = retries - 1
  /\ wait' = wait * 2
  /\ attemptError' = << >>
  /\ rpc' = "invoke"
  /\ UNCHANGED notRetryVars
  /\ UNCHANGED << entry, fails, condition, retriesArg, timeLimit, waitArg,
                  pendingCounts, outstanding, outcome, invocations,
                  conditionEvals, timeouts, events >>

\* lines 444-447 and 454-457: _deploy / _deployBuild is entered and calls
\* this.retry(fn, retries)
DeployCall ==
  /\ rpc = "call"
  /\ entry = "_deploy"
  /\ retries' = OrDefault(retriesArg, DefaultRetries)
  /\ wait' = OrDefault(<< >>, DefaultWait)
  /\ rpc' = "invoke"
  /\ UNCHANGED notRetryVars
  /\ UNCHANGED << entry, fails, condition, retriesArg, timeLimit, waitArg,
                  pendingCounts, outstanding, attemptError, outcome, invocations,
                  conditionEvals, timeouts, events >>

\* the counter raised once for every invocation of the deployment
DeployReturnsPerAttempt ==
  /\ rpc = "settled"
  /\ entry = "_deploy"
  /\ outcome[1] = "resolved"
  /\ dm' = [dm EXCEPT !.counter = @ + invocations]
  /\ deployLog' = Append(deployLog, "resolved")
  /\ rpc' = "returned"
  /\ UNCHANGED << chain, ncalls, crawled, deployedArg, lastCall >>
  /\ UNCHANGED << runnerVars, crawlVars, scenariosVars, pauseVars, signerVars,
                  scriptVars >>
  /\ UNCHANGED << entry, fails, condition, retriesArg, timeLimit, waitArg,
                  retries, wait, pendingCounts, outstanding, attemptError, outcome,
                  invocations, conditionEvals, timeouts, events >>

\* lines 448-449 and 458-459: retry resolved; this.counter++; return contract
DeployReturns ==
  /\ rpc = "settled"
  /\ entry = "_deploy"
  /\ outcome[1] = "resolved"
  /\ dm' = [dm EXCEPT !.counter = @ + 1]
  /\ deployLog' = Append(deployLog, "resolved")
  /\ rpc' = "returned"
  /\ UNCHANGED << chain, ncalls, crawled, deployedArg, lastCall >>
  /\ UNCHANGED << runnerVars, crawlVars, scenariosVars, pauseVars, signerVars,
                  scriptVars >>
  /\ UNCHANGED << entry, fails, condition, retriesArg, timeLimit, waitArg,
                  retries, wait, pendingCounts, outstanding, attemptError, outcome,
                  invocations, conditionEvals, timeouts, events >>

\* lines 444 and 454: retry rejected; the await throws and _deploy rejects with
\* that error before line 448
DeployRejects ==
  /\ rpc = "settled"
  /\ entry = "_deploy"
  /\ outcome[1] = "rejected"
  /\ dm' = dm
  /\ deployLog' = Append(deployLog, "rejected")
  /\ rpc' = "returned"
  /\ UNCHANGED << chain, ncalls, crawled, deployedArg, lastCall >>
  /\ UNCHANGED << runnerVars, crawlVars, scenariosVars, pauseVars, signerVars,
                  scriptVars >>
  /\ UNCHANGED << entry, fails, condition, retriesArg, timeLimit, waitArg,
                  retries, wait, pendingCounts, outstanding, attemptError, outcome,
                  invocations, conditionEvals, timeouts, events >>

\* lines 439-460: another _deploy / _deployBuild call on the same manager, for
\* a deployment that fails any number of times and with any retries
DeployAgain ==
  /\ rpc = "returned"
  /\ entry = "_deploy"
  /\ Len(deployLog) < MaxDeploys
  /\ rpc' = "call"
  /\ fails' \in 0..MaxFails
  /\ retriesArg' \in {<< >>} \cup {<<n>> : n \in 0..MaxRetries}
  /\ retries' = 0
  /\ wait' = 0
  /\ outstanding' = {}
  /\ attemptError' = << >>
  /\ outcome' = << >>
  /\ invocations' = 0
  /\ timeouts' = 0
  /\ events' = << >>
  /\ UNCHANGED << entry, condition, timeLimit, waitArg, pendingCounts, conditionEvals >>
  /\ UNCHANGED notRetryVars

NextRetry ==
  \/ RetryCall
  \/ DeployCall
  \/ DeployReturns
  \/ DeployRejects
  \/ DeployAgain
  \/ IdempotentCondition
  \/ IdempotentConditionThrows
  \/ Invoke
  \/ AttemptResolves
  \/ AttemptRejects
  \/ AttemptTimesOut
  \/ \E n \in 1..(MaxFails + MaxTimeouts + 1) : AbandonedSettles(n)
  \/ CatchRethrow
  \/ CatchReset
  \/ Sleep
  \/ Recurse

(***************************************************************************)
(* Comet.pause and the pause flags                                         *)
(***************************************************************************)
MaxPauseCalls == 3

\* the actions that can be paused, in the order of pause's parameters
PauseActions == << "supply", "transfer", "withdraw", "absorb", "buy" >>

\* the bit of pauseFlags that holds the flag of the n-th action
PauseBit(n) == 2 ^ (n - 1)

\* the accounts of makeProtocol: governor, pauseGuardian, users[0]
Accounts == {"governor", "pauseGuardian", "user"}

\* the flags word for five booleans: each at its own bit, 8 bits wide
PackFlags(args) ==
  LET RECURSIVE Sum(_)
      Sum(n) == IF n = 0 THEN 0
                ELSE (IF args[n] THEN PauseBit(n) ELSE 0) + Sum(n - 1)
  IN Sum(Len(PauseActions)) % 256

\* isSupplyPausedHarness, ..., isBuyPausedHarness: the bit of the n-th action
isPaused(flags, n) == (flags \div PauseBit(n)) % 2 = 1

\* pause without the check of the caller
AuthorisedAnyone(sender) == TRUE

\* the caller may pause: governor or pause guardian
Authorised(sender) == sender \in {"governor", "pauseGuardian"}

NoPause ==
  [sender |-> "", args |-> << >>, before |-> 0, outcome |-> "none"]

\* makeProtocol(): a protocol just deployed
PauseStart ==
  /\ ppc = "ready"
  /\ pauseFlags = 0
  /\ pauseCalls = 0
  /\ lastPause = NoPause

\* the contract when another component is exercised
PauseIdle ==
  /\ ppc = "idle"
  /\ pauseFlags = 0
  /\ pauseCalls = 0
  /\ lastPause = NoPause

\* pause setting only the flags whose argument is true
PauseOnlySets(sender, args) ==
  /\ ppc = "ready"
  /\ pauseCalls < MaxPauseCalls
  /\ pauseCalls' = pauseCalls + 1
  /\ IF Authorised(sender)
       THEN /\ pauseFlags' = PackFlags([n \in DOMAIN args |->
                                          args[n] \/ isPaused(pauseFlags, n)])
            /\ lastPause' = [sender |-> sender, args |-> args, before |-> pauseFlags,
                             outcome |-> "ok"]
       ELSE /\ pauseFlags' = pauseFlags
            /\ lastPause' = [sender |-> sender, args |-> args, before |-> pauseFlags,
                             outcome |-> "bad auth"]
  /\ UNCHANGED ppc
  /\ UNCHANGED notPauseVars

\* comet.connect(sender).pause(supply, transfer, withdraw, absorb, buy)
Pause(sender, args) ==
  /\ ppc = "ready"
  /\ pauseCalls < MaxPauseCalls
  /\ pauseCalls' = pauseCalls + 1
  /\ IF Authorised(sender)
       THEN /\ pauseFlags' = PackFlags(args)
            /\ lastPause' = [sender |-> sender, args |-> args, before |-> pauseFlags,
                             outcome |-> "ok"]
       ELSE /\ pauseFlags' = pauseFlags
            /\ lastPause' = [sender |-> sender, args |-> args, before |-> pauseFlags,
                             outcome |-> "bad auth"]
  /\ UNCHANGED ppc
  /\ UNCHANGED notPauseVars

NextPause ==
  \E sender \in Accounts, args \in [DOMAIN PauseActions -> BOOLEAN] : Pause(sender, args)

(***************************************************************************)
(* Spider: maybeStore, crawl, spider                                       *)
(***************************************************************************)
\* the aliases a deployment uses
AliasNames == {"comet", "usdc"}

\* the addresses a root or an argument can name
Addresses == {1, 2}

\* the address the first deployment on the network gets
FirstDeployed == Cardinality(Addresses) + 1

NoError == ""

\* a JavaScript Map: its entries, in insertion order
Entry(k, v) == [k |-> k, v |-> v]
MapKeys(map) == {map[i].k : i \in DOMAIN map}
MapHas(map, k) == k \in MapKeys(map)
MapGet(map, k) == map[CHOOSE i \in DOMAIN map : map[i].k = k].v
MapSet(map, k, v) ==
  IF MapHas(map, k)
    THEN [i \in DOMAIN map |-> IF map[i].k = k THEN Entry(k, v) ELSE map[i]]
    ELSE Append(map, Entry(k, v))

\* new Map([...a, ...b])
RECURSIVE MapMerge(_, _)
MapMerge(a, b) ==
  IF b = << >> THEN a
  ELSE MapMerge(MapSet(a, Head(b).k, Head(b).v), Tail(b))

\* what the contractsCache field can hold
NullValue == [type |-> "null", entries |-> << >>]
UndefinedValue == [type |-> "undefined", entries |-> << >>]
MapValue(map) == [type |-> "Map", entries |-> map]

\* obj[key] of an object: undefined when the object has no such property
ReadProperty(obj, key) ==
  IF key \in DOMAIN obj THEN MapValue(obj[key]) ELSE UndefinedValue

\* maybeStore without the check of lines 41-47: an alias already bound is
\* bound again, to whatever address comes
maybeStoreOverwrites(alias, address, into) ==
  [stored |-> TRUE, threw |-> FALSE, into |-> MapSet(into, alias, address)]

\* maybeStore without the into.set of line 49: a new alias is reported as
\* stored and is not
maybeStoreNoSet(alias, address, into) ==
  IF MapHas(into, alias)
    THEN IF MapGet(into, alias) = address
           THEN [stored |-> FALSE, threw |-> FALSE, into |-> into]
           ELSE [stored |-> FALSE, threw |-> TRUE, into |-> into]
    ELSE [stored |-> TRUE, threw |-> FALSE, into |-> into]

\* lines 40-52: maybeStore(alias, address, into)
maybeStore(alias, address, into) ==
  IF MapHas(into, alias)
    THEN IF MapGet(into, alias) = address
           THEN [stored |-> FALSE, threw |-> FALSE, into |-> into]
           ELSE [stored |-> FALSE, threw |-> TRUE, into |-> into]
    ELSE [stored |-> TRUE, threw |-> FALSE, into |-> MapSet(into, alias, address)]

\* lines 68-70: the address holds code
isContract(ch, address) == address \in ch.code

\* readAlias for a template that is a plain alias: the template, with the
\* occurrence index appended when it is not 0
readAlias(aliasRender) ==
  IF aliasRender.i = 0 THEN aliasRender.template
  ELSE aliasRender.template \o ":" \o ToString(aliasRender.i)

\* lines 84-199, for a deployment whose relation config is empty: no alias has
\* a config (line 174) and a contract's config is {} (line 192), so
\* maybeProcess stores the alias and the contract and follows nothing.
\* cs holds the crawl's aliases, proxies and contracts maps; fetchOk tells
\* whether remoteBuild can fetch the build files.
crawl(ch, fetchOk, node, cs) ==
  LET alias == readAlias(node.aliasRender)
      st == maybeStore(alias, node.address, cs.aliases)
  IN IF isContract(ch, node.address)
       THEN IF ~fetchOk \/ st.threw
              THEN [cs EXCEPT !.threw = TRUE]
              ELSE IF st.stored
                     THEN [cs EXCEPT !.aliases = st.into,
                                     !.contracts = MapSet(@, alias, node.address)]
                     ELSE cs
       ELSE IF st.threw
              THEN [cs EXCEPT !.threw = TRUE]
              ELSE [cs EXCEPT !.aliases = st.into]

\* lines 217-229: for (const [alias, address] of roots) await crawl(...)
RECURSIVE crawlRoots(_, _, _, _, _)
crawlRoots(ch, fetchOk, roots, i, cs) ==
  IF i > Len(roots) \/ cs.threw THEN cs
  ELSE crawlRoots(ch, fetchOk, roots, i + 1,
                  crawl(ch, fetchOk,
                        [aliasRender |-> [template |-> roots[i].k, i |-> 0],
                         address |-> roots[i].v],
                        cs))

\* lines 201-232: spider(cache, network, hre, relations, roots); value is the
\* object returned, contracts the local contracts map at the end of the crawl
spider(ch, fetchOk, roots) ==
  LET cs == crawlRoots(ch, fetchOk, roots, 1,
                       [aliases |-> << >>, proxies |-> << >>,
                        contracts |-> << >>, threw |-> FALSE])
  IN [threw |-> cs.threw,
      value |-> [aliases |-> cs.aliases, proxies |-> cs.proxies],
      contracts |-> cs.contracts]

(***************************************************************************)
(* DeploymentManager                                                       *)
(***************************************************************************)
\* spider(deployed) crawling from the deployed aliases alone
managerSpiderDeployedOnly(d, ch, fetchOk, deployed) ==
  LET roots == deployed
      c == spider(ch, fetchOk, roots)
  IN IF c.threw
       THEN [d |-> d, error |-> "crawl error", ran |-> << >>]
       ELSE [d |-> [d EXCEPT !.roots = roots,
                             !.aliases = c.value.aliases,
                             !.proxies = c.value.proxies,
                             !.contractsCache = ReadProperty(c.value, "contracts")],
             error |-> NoError,
             ran |-> << c.contracts >>]

\* lines 499-521: DeploymentManager.spider(deployed)
managerSpider(d, ch, fetchOk, deployed) ==
  LET roots == MapMerge(d.roots, deployed)
      c == spider(ch, fetchOk, roots)
  IN IF c.threw
       THEN [d |-> d, error |-> "crawl error", ran |-> << >>]
       ELSE [d |-> [d EXCEPT !.roots = roots,
                             !.aliases = c.value.aliases,
                             !.proxies = c.value.proxies,
                             !.contractsCache = ReadProperty(c.value, "contracts")],
             error |-> NoError,
             ran |-> << c.contracts >>]

\* lines 545-551: DeploymentManager.contracts()
contracts(d, ch, fetchOk) ==
  IF d.contractsCache = NullValue
    THEN managerSpider(d, ch, fetchOk, << >>)
    ELSE [d |-> d, error |-> NoError, ran |-> << >>]

\* lines 563-567: DeploymentManager.contract(alias); value is <<handle>>, or
\* << >> for undefined
contract(d, ch, fetchOk, alias) ==
  LET r == contracts(d, ch, fetchOk)
      cache == r.d.contractsCache
  IN IF r.error # NoError
       THEN [d |-> r.d, error |-> r.error, ran |-> r.ran, value |-> << >>]
       ELSE IF cache.type # "Map"
              THEN [d |-> r.d, error |-> "TypeError", ran |-> r.ran, value |-> << >>]
              ELSE [d |-> r.d, error |-> NoError, ran |-> r.ran,
                    value |-> IF MapHas(cache.entries, alias)
                                THEN << MapGet(cache.entries, alias) >>
                                ELSE << >>]

\* lines 524-527: DeploymentManager.putAlias(alias, contract)
putAlias(d, alias, address) ==
  LET d1 == [d EXCEPT !.aliases = MapSet(@, alias, address)]
  IN IF d1.contractsCache.type # "Map"
       THEN [d |-> d1, error |-> "TypeError"]
       ELSE [d |-> [d1 EXCEPT !.contractsCache.entries = MapSet(@, alias, address)],
             error |-> NoError]

\* the contract map of the manager: contractsCache when it is a Map, else the
\* map the last crawl built for it
ManagerContracts ==
  IF dm.contractsCache.type = "Map" THEN dm.contractsCache.entries ELSE crawled

NoCall ==
  [op |-> "none", alias |-> "", force |-> FALSE, known |-> FALSE, handle |-> 0,
   outcome |-> "none", value |-> 0, error |-> NoError, before |-> << >>]

\* a call as it is made: known tells that the manager has spidered and its
\* contract map holds the alias, handle is the contract the map holds for it
Call(op, alias, force) ==
  LET known == dm.contractsCache # NullValue /\ MapHas(ManagerContracts, alias)
  IN [op |-> op, alias |-> alias, force |-> force, known |-> known,
      handle |-> IF known THEN MapGet(ManagerContracts, alias) ELSE 0,
      outcome |-> "pending", value |-> 0, error |-> NoError,
      before |-> << dm, chain >>]

Returned(call, v) == [call EXCEPT !.outcome = "returned", !.value = v]
Threw(call, e) == [call EXCEPT !.outcome = "threw", !.error = e]

\* the network after a deployment at its next address
Deployed(ch) == [code |-> ch.code \cup {ch.next}, next |-> ch.next + 1]

\* the roots a deployment can have stored: maps from aliases to addresses
RootsChoices ==
  {m \in UNION {[1..n -> {Entry(a, x) : a \in AliasNames, x \in Addresses}] :
                  n \in 0..Cardinality(AliasNames)} :
     \A i, j \in DOMAIN m : m[i].k = m[j].k => i = j}

\* what a deploy script hands to spider(deployed)
DeployedChoices ==
  {<< >>} \cup {<< Entry(a, x) >> : a \in AliasNames, x \in Addresses}

\* lines 285-306: a new manager over a deployment's cache and a network
DeployStart ==
  /\ \E r \in RootsChoices, a \in BOOLEAN :
       dm = [counter |-> 0, contractsCache |-> NullValue, roots |-> r,
             aliases |-> IF a THEN r ELSE << >>, proxies |-> << >>]
  /\ \E c \in SUBSET Addresses : chain = [code |-> c, next |-> FirstDeployed]
  /\ ncalls = 0
  /\ crawled = << >>
  /\ deployedArg = << >>
  /\ deployLog = << >>
  /\ lastCall = NoCall

\* the manager when another component is exercised
DeployIdle ==
  /\ dm = [counter |-> 0, contractsCache |-> NullValue, roots |-> << >>,
           aliases |-> << >>, proxies |-> << >>]
  /\ chain = [code |-> {}, next |-> FirstDeployed]
  /\ ncalls = 0
  /\ crawled = << >>
  /\ deployedArg = << >>
  /\ deployLog = << >>
  /\ lastCall = NoCall

\* lines 406-421 with 439-450: deploy(alias, contractFile, deployArgs, force,
\* retries); deployOk tells whether the retried deployment resolves
Deploy(alias, force, fetchOk, deployOk) ==
  /\ ncalls < MaxCalls
  /\ ncalls' = ncalls + 1
  /\ \E call \in {Call("deploy", alias, force)} :
     \E r \in {contract(dm, chain, fetchOk, alias)} :
     \E put \in {putAlias([r.d EXCEPT !.counter = @ + 1], alias, chain.next)} :
        /\ crawled' = IF r.ran = << >> THEN crawled ELSE r.ran[1]
        /\ deployedArg' = << >>
        /\ deployLog' = IF r.error = NoError /\ (r.value = << >> \/ force)
                          THEN Append(deployLog, IF deployOk THEN "resolved" ELSE "rejected")
                          ELSE deployLog
        /\ IF r.error # NoError
             THEN /\ dm' = r.d
                  /\ chain' = chain
                  /\ lastCall' = Threw(call, r.error)
             ELSE IF r.value # << >> /\ ~force
                    THEN /\ dm' = r.d
                         /\ chain' = chain
                         /\ lastCall' = Returned(call, r.value[1])
                    ELSE IF ~deployOk
                           THEN /\ dm' = r.d
                                /\ chain' = chain
                                /\ lastCall' = Threw(call, "deploy error")
                           ELSE /\ dm' = put.d
                                /\ chain' = Deployed(chain)
                                /\ lastCall' = IF put.error # NoError
                                                 THEN Threw(call, put.error)
                                                 ELSE Returned(call, chain.next)
  /\ UNCHANGED notDeployVars

\* lines 386-403 with 369-377 and 453-460: clone(alias, address, deployArgs,
\* fromNetwork, force, retries); importOk tells whether the import resolves
Clone(alias, address, force, fetchOk, importOk, deployOk) ==
  /\ ncalls < MaxCalls
  /\ ncalls' = ncalls + 1
  /\ \E call \in {Call("clone", alias, force)} :
     \E r \in {contract(dm, chain, fetchOk, alias)} :
     \E put \in {putAlias([r.d EXCEPT !.counter = @ + 1], alias, chain.next)} :
        /\ crawled' = IF r.ran = << >> THEN crawled ELSE r.ran[1]
        /\ deployedArg' = << >>
        /\ deployLog' = IF r.error = NoError /\ (r.value = << >> \/ force) /\ importOk
                          THEN Append(deployLog, IF deployOk THEN "resolved" ELSE "rejected")
                          ELSE deployLog
        /\ IF r.error # NoError
             THEN /\ dm' = r.d
                  /\ chain' = chain
                  /\ lastCall' = Threw(call, r.error)
             ELSE IF r.value # << >> /\ ~force
                    THEN /\ dm' = r.d
                         /\ chain' = chain
                         /\ lastCall' = Returned(call, r.value[1])
                    ELSE IF ~importOk \/ ~deployOk
                           THEN /\ dm' = r.d
                                /\ chain' = chain
                                /\ lastCall' =
                                     Threw(call, IF ~importOk THEN "import error"
                                                 ELSE "deploy error")
                           ELSE /\ dm' = put.d
                                /\ chain' = Deployed(chain)
                                /\ lastCall' = IF put.error # NoError
                                                 THEN Threw(call, put.error)
                                                 ELSE Returned(call, chain.next)
  /\ UNCHANGED notDeployVars

\* lines 423-436: existing(alias, address)
Existing(alias, address, fetchOk, importOk) ==
  /\ ncalls < MaxCalls
  /\ ncalls' = ncalls + 1
  /\ chain' = chain
  /\ \E call \in {Call("existing", alias, FALSE)} :
     \E r \in {contract(dm, chain, fetchOk, alias)} :
     \E put \in {putAlias(r.d, alias, address)} :
        /\ crawled' = IF r.ran = << >> THEN crawled ELSE r.ran[1]
        /\ deployedArg' = << >>
        /\ deployLog' = deployLog
        /\ IF r.error # NoError
             THEN /\ dm' = r.d
                  /\ lastCall' = Threw(call, r.error)
             ELSE IF r.value # << >>
                    THEN /\ dm' = r.d
                         /\ lastCall' = Returned(call, r.value[1])
                    ELSE IF ~importOk
                           THEN /\ dm' = r.d
                                /\ lastCall' = Threw(call, "import error")
                           ELSE /\ dm' = put.d
                                /\ lastCall' = IF put.error # NoError
                                                 THEN Threw(call, put.error)
                                                 ELSE Returned(call, address)
  /\ UNCHANGED notDeployVars

\* lines 563-567: contract(alias), called on the manager
ContractCall(alias, fetchOk) ==
  /\ ncalls < MaxCalls
  /\ ncalls' = ncalls + 1
  /\ chain' = chain
  /\ \E call \in {Call("contract", alias, FALSE)} :
     \E r \in {contract(dm, chain, fetchOk, alias)} :
        /\ crawled' = IF r.ran = << >> THEN crawled ELSE r.ran[1]
        /\ deployedArg' = << >>
        /\ deployLog' = deployLog
        /\ dm' = r.d
        /\ lastCall' = IF r.error # NoError THEN Threw(call, r.error)
                       ELSE IF r.value = << >> THEN Returned(call, 0)
                       ELSE Returned(call, r.value[1])
  /\ UNCHANGED notDeployVars

\* lines 499-521: spider(deployed), called on the manager
SpiderCall(deployed, fetchOk) ==
  /\ ncalls < MaxCalls
  /\ ncalls' = ncalls + 1
  /\ chain' = chain
  /\ \E call \in {Call("spider", "", FALSE)} :
     \E r \in {managerSpider(dm, chain, fetchOk, deployed)} :
        /\ crawled' = IF r.ran = << >> THEN crawled ELSE r.ran[1]
        /\ deployedArg' = deployed
        /\ deployLog' = deployLog
        /\ dm' = r.d
        /\ lastCall' = IF r.error # NoError THEN Threw(call, r.error)
                       ELSE Returned(call, 0)
  /\ UNCHANGED notDeployVars

\* lines 524-527: putAlias(alias, contract), called on the manager
PutAliasCall(alias, address) ==
  /\ ncalls < MaxCalls
  /\ ncalls' = ncalls + 1
  /\ chain' = chain
  /\ crawled' = crawled
  /\ deployedArg' = << >>
  /\ deployLog' = deployLog
  /\ \E call \in {Call("putAlias", alias, FALSE)} :
     \E put \in {putAlias(dm, alias, address)} :
        /\ dm' = put.d
        /\ lastCall' = IF put.error # NoError THEN Threw(call, put.error)
                       ELSE Returned(call, 0)
  /\ UNCHANGED notDeployVars

NextDeploy ==
  \/ \E alias \in AliasNames, force, fetchOk, deployOk \in BOOLEAN :
       Deploy(alias, force, fetchOk, deployOk)
  \/ \E alias \in AliasNames, address \in Addresses,
        force, fetchOk, importOk, deployOk \in BOOLEAN :
       Clone(alias, address, force, fetchOk, importOk, deployOk)
  \/ \E alias \in AliasNames, address \in Addresses, fetchOk, importOk \in BOOLEAN :
       Existing(alias, address, fetchOk, importOk)
  \/ \E alias \in AliasNames, fetchOk \in BOOLEAN : ContractCall(alias, fetchOk)
  \/ \E deployed \in DeployedChoices, fetchOk \in BOOLEAN : SpiderCall(deployed, fetchOk)
  \/ \E alias \in AliasNames, address \in Addresses : PutAliasCall(alias, address)

(***************************************************************************)
(* Spider, step by step: relation configs, the network, crawl              *)
(***************************************************************************)
\* the contract names build files report; "" stands for an address without code
ContractNames == {"Proxy", "Token"}
CodeValues == {""} \cup ContractNames

\* what a field of a contract can hold: up to two addresses
FieldValues ==
  {<< >>} \cup {<< a >> : a \in Addresses}
          \cup {p \in Addresses \X Addresses : p[1] <= p[2]}

\* a RelationInnerConfig: the field to read ("" when not given) and the alias
\* templates (<< >> when not given)
InnerConfig(field, alias) == [field |-> field, alias |-> alias]

\* a RelationConfig: artifact, delegates (<< >> when not given) and relations
\* (the entries of the relations object, in order)
EmptyConfig == [artifact |-> FALSE, delegates |-> << >>, relations |-> << >>]

\* the configs a deployment can declare: for the root alias "comet" a local
\* artifact, a delegate and a relation; for contracts named Proxy a delegate;
\* for contracts named Token a relation with an alias of its own
CometConfig ==
  [artifact |-> TRUE,
   delegates |-> << InnerConfig("implementation", << >>) >>,
   relations |-> << [key |-> "token", config |-> InnerConfig("", << >>)] >>]
ProxyConfig ==
  [artifact |-> FALSE,
   delegates |-> << InnerConfig("implementation", << >>) >>,
   relations |-> << >>]
TokenConfig ==
  [artifact |-> FALSE,
   delegates |-> << >>,
   relations |-> << [key |-> "token", config |-> InnerConfig("", << "asset" >>)] >>]

AllConfigs ==
  [key \in {"comet", "Proxy", "Token"} |->
     IF key = "comet" THEN CometConfig
     ELSE IF key = "Proxy" THEN ProxyConfig ELSE TokenConfig]

\* the relation config maps: any part of AllConfigs
RelationConfigMaps ==
  {[key \in keys |-> AllConfigs[key]] : keys \in SUBSET DOMAIN AllConfigs}

\* aliasTemplateKey of a template that is a string
aliasTemplateKey(aliasTemplate) == aliasTemplate

\* getFieldKey(config, defaultKey): the config's field, else the default key
getFieldKey(config, defaultKey) ==
  IF config.field = "" THEN defaultKey ELSE config.field

\* relations[key], << >> when the map has no such key
ConfigOf(key) == IF key \in DOMAIN relations THEN << relations[key] >> ELSE << >>

\* lines 61-65 of discoverNodes, for the addresses readField returned
discoverNodes(addresses, config, defaultKeyAndTemplate) ==
  LET templates == IF config.alias # << >> THEN config.alias
                   ELSE << defaultKeyAndTemplate >>
  IN [n \in 1..Len(addresses) |->
        [address |-> addresses[n],
         aliasRender |-> [template |-> templates[((n - 1) % Len(templates)) + 1],
                          i |-> n - 1]]]

\* what getCode and the build file can report: the value read before, if any
CodeChoices(address) ==
  IF address \in DOMAIN netCode THEN {netCode[address]} ELSE CodeValues

\* what a read of a field can return: the value read before, if any
FieldChoices(address, field) ==
  IF << address, field >> \in DOMAIN netField
    THEN {netField[<< address, field >>]} ELSE FieldValues

\* a contract handle: its address and the ABIs merged into it
Handle(address, abi) == [address |-> address, abi |-> abi]

\* the call crawl(node) as it is entered
Frame(node, via) ==
  [node |-> node, via |-> via, phase |-> "enter", alias |-> "",
   config |-> EmptyConfig, byName |-> FALSE,
   contract |-> Handle(node.address, {}),
   discovered |-> FALSE, kids |-> << >>, k |-> 1, r |-> 1]

Top == stack[Len(stack)]
Pop == SubSeq(stack, 1, Len(stack) - 1)
SetTop(frame) == [stack EXCEPT ![Len(stack)] = frame]

NoStore ==
  [alias |-> "", address |-> 0, into |-> "none", before |-> << >>,
   after |-> << >>, outcome |-> "none"]

\* a maybeStore call and what it did: st is what maybeStore returned, after
\* the map it left
StoreCall(alias, address, into, before, st) ==
  [alias |-> alias, address |-> address, into |-> into, before |-> before,
   after |-> st.into,
   outcome |-> IF st.threw THEN "threw" ELSE IF st.stored THEN "stored" ELSE "same"]

Read(alias, address, kind, key, value) ==
  [alias |-> alias, address |-> address, kind |-> kind, key |-> key, value |-> value]

\* the inputs of a crawl: a relation config map and roots; nothing of the
\* network has been read
CrawlStart ==
  /\ cpc = "start"
  /\ relations \in RelationConfigMaps
  /\ spiderRoots \in RootsChoices
  /\ netCode = << >>
  /\ netField = << >>
  /\ ri = 1
  /\ stack = << >>
  /\ returnedAlias = << >>
  /\ aliases = << >>
  /\ proxies = << >>
  /\ contractMap = << >>
  /\ context = << >>
  /\ spiderResult = << >>
  /\ spiderError = NoError
  /\ run = 1
  /\ firstRun = << >>
  /\ stored = NoStore
  /\ reads = << >>

\* the spider when another component is exercised
CrawlIdle ==
  /\ cpc = "idle"
  /\ relations = << >>
  /\ spiderRoots = << >>
  /\ netCode = << >>
  /\ netField = << >>
  /\ ri = 1
  /\ stack = << >>
  /\ returnedAlias = << >>
  /\ aliases = << >>
  /\ proxies = << >>
  /\ contractMap = << >>
  /\ context = << >>
  /\ spiderResult = << >>
  /\ spiderError = NoError
  /\ run = 1
  /\ firstRun = << >>
  /\ stored = NoStore
  /\ reads = << >>

\* spider with the alias map of line 213 created once, outside the function:
\* a later call finds the aliases of the call before
SpiderStartSharedAliases ==
  /\ cpc = "start"
  /\ cpc' = "crawling"
  /\ ri' = 1
  /\ stack' = << >>
  /\ returnedAlias' = << >>
  /\ proxies' = << >>
  /\ contractMap' = << >>
  /\ context' = << >>
  /\ stored' = NoStore
  /\ reads' = << >>
  /\ UNCHANGED << relations, spiderRoots, netCode, netField, aliases, spiderResult,
                  spiderError, run, firstRun >>
  /\ UNCHANGED notCrawlVars

\* lines 208-215: spider is entered and creates its context and maps
SpiderStart ==
  /\ cpc = "start"
  /\ cpc' = "crawling"
  /\ ri' = 1
  /\ stack' = << >>
  /\ returnedAlias' = << >>
  /\ aliases' = << >>
  /\ proxies' = << >>
  /\ contractMap' = << >>
  /\ context' = << >>
  /\ stored' = NoStore
  /\ reads' = << >>
  /\ UNCHANGED << relations, spiderRoots, netCode, netField, spiderResult,
                  spiderError, run, firstRun >>
  /\ UNCHANGED notCrawlVars

\* lines 217-228: the next root is handed to crawl
CrawlRoot ==
  /\ cpc = "crawling"
  /\ stack = << >>
  /\ returnedAlias = << >>
  /\ ri <= Len(spiderRoots)
  /\ stack' = << Frame([address |-> spiderRoots[ri].v,
                        aliasRender |-> [template |-> spiderRoots[ri].k, i |-> 0]],
                       "root") >>
  /\ UNCHANGED << cpc, relations, spiderRoots, netCode, netField, ri, returnedAlias,
                  aliases, proxies, contractMap, context, spiderResult,
                  spiderError, run, firstRun, stored, reads >>
  /\ UNCHANGED notCrawlVars

\* lines 217-229: the crawl of a root has returned; on to the next root
RootCrawled ==
  /\ cpc = "crawling"
  /\ stack = << >>
  /\ returnedAlias # << >>
  /\ returnedAlias' = << >>
  /\ ri' = ri + 1
  /\ UNCHANGED << cpc, relations, spiderRoots, netCode, netField, stack,
                  aliases, proxies, contractMap, context, spiderResult,
                  spiderError, run, firstRun, stored, reads >>
  /\ UNCHANGED notCrawlVars

\* line 231: return { aliases, proxies }
SpiderReturn ==
  /\ cpc = "crawling"
  /\ stack = << >>
  /\ returnedAlias = << >>
  /\ ri > Len(spiderRoots)
  /\ cpc' = "returned"
  /\ spiderResult' = << [aliases |-> aliases, proxies |-> proxies] >>
  /\ UNCHANGED << relations, spiderRoots, netCode, netField, ri, stack, returnedAlias,
                  aliases, proxies, contractMap, context, spiderError, run,
                  firstRun, stored, reads >>
  /\ UNCHANGED notCrawlVars

\* spider is called a second time with the same roots and relation config,
\* over the same network
SpiderAgain ==
  /\ cpc \in {"returned", "threw"}
  /\ run = 1
  /\ run' = 2
  /\ firstRun' = spiderResult
  /\ spiderResult' = << >>
  /\ spiderError' = NoError
  /\ cpc' = "start"
  /\ UNCHANGED << relations, spiderRoots, netCode, netField, ri, stack, returnedAlias,
                  aliases, proxies, contractMap, context, stored, reads >>
  /\ UNCHANGED notCrawlVars

\* the check of line 176 left out
MisconfiguredNever(aliasConfig, code) == FALSE

\* lines 175-176: the template has a config and the address holds no code
Misconfigured(aliasConfig, code) == aliasConfig # << >> /\ code = ""

\* crawl(node) without the branch of lines 194-197: an address without code
\* is processed like a contract
CrawlNodeProcessesAll ==
  /\ cpc = "crawling"
  /\ stack # << >>
  /\ Top.phase = "enter"
  /\ \E code \in CodeChoices(Top.node.address) :
     \E aliasConfig \in {ConfigOf(aliasTemplateKey(Top.node.aliasRender.template))} :
     \E alias \in {readAlias(Top.node.aliasRender)} :
     \E st \in {maybeStore(alias, Top.node.address, aliases)} :
     \E config \in {IF aliasConfig # << >> THEN aliasConfig[1]
                    ELSE IF code \in DOMAIN relations THEN relations[code]
                    ELSE EmptyConfig} :
     \E built \in {Handle(Top.node.address, {code})} :
       /\ netCode' = Extend(netCode, Top.node.address, code)
       /\ IF Misconfigured(aliasConfig, code)
            THEN \* lines 176-178: config for the template but no contract
                 /\ cpc' = "threw"
                 /\ spiderError' = "Found config but no contract"
                 /\ UNCHANGED << stack, returnedAlias, aliases, contractMap, stored, reads >>
            ELSE /\ stored' = StoreCall(alias, Top.node.address, "aliases", aliases, st)
                 /\ IF st.threw
                      THEN \* line 46
                           /\ cpc' = "threw"
                           /\ spiderError' = "Had alias, not address"
                           /\ UNCHANGED << stack, returnedAlias, aliases, contractMap, reads >>
                      ELSE /\ aliases' = st.into
                           /\ UNCHANGED << cpc, spiderError >>
                           /\ IF ~st.stored
                                THEN \* lines 196 and 168-171: return alias
                                     /\ stack' = Pop
                                     /\ returnedAlias' = << alias >>
                                     /\ UNCHANGED << contractMap, reads >>
                                ELSE \* lines 100-103, and line 140 when
                                     \* the config has no delegates
                                     /\ stack' = SetTop(
                                          [Top EXCEPT
                                             !.alias = alias,
                                             !.config = config,
                                             !.byName = (aliasConfig = << >>),
                                             !.contract = built,
                                             !.phase = IF config.delegates # << >>
                                                         THEN "delegates"
                                                         ELSE "relations"])
                                     /\ contractMap' =
                                          IF config.delegates # << >> THEN contractMap
                                          ELSE MapSet(contractMap, alias, built)
                                     /\ reads' = Append(reads,
                                          Read(alias, Top.node.address, "process", "", << >>))
                                     /\ UNCHANGED returnedAlias
  /\ UNCHANGED << relations, spiderRoots, netField, ri, proxies, context,
                  spiderResult, run, firstRun >>
  /\ UNCHANGED notCrawlVars

\* crawl(node) with line 140 ahead of lines 104-137: the handle is put in the
\* contract map before the delegates are crawled
CrawlNodeSetsContractFirst ==
  /\ cpc = "crawling"
  /\ stack # << >>
  /\ Top.phase = "enter"
  /\ \E code \in CodeChoices(Top.node.address) :
     \E aliasConfig \in {ConfigOf(aliasTemplateKey(Top.node.aliasRender.template))} :
     \E alias \in {readAlias(Top.node.aliasRender)} :
     \E st \in {maybeStore(alias, Top.node.address, aliases)} :
     \E config \in {IF aliasConfig # << >> THEN aliasConfig[1]
                    ELSE IF code \in DOMAIN relations THEN relations[code]
                    ELSE EmptyConfig} :
     \E built \in {Handle(Top.node.address, {code})} :
       /\ netCode' = Extend(netCode, Top.node.address, code)
       /\ IF Misconfigured(aliasConfig, code)
            THEN \* lines 176-178: config for the template but no contract
                 /\ cpc' = "threw"
                 /\ spiderError' = "Found config but no contract"
                 /\ UNCHANGED << stack, returnedAlias, aliases, contractMap, stored, reads >>
            ELSE /\ stored' = StoreCall(alias, Top.node.address, "aliases", aliases, st)
                 /\ IF st.threw
                      THEN \* line 46
                           /\ cpc' = "threw"
                           /\ spiderError' = "Had alias, not address"
                           /\ UNCHANGED << stack, returnedAlias, aliases, contractMap, reads >>
                      ELSE /\ aliases' = st.into
                           /\ UNCHANGED << cpc, spiderError >>
                           /\ IF code = "" \/ ~st.stored
                                THEN \* lines 196 and 168-171: return alias
                                     /\ stack' = Pop
                                     /\ returnedAlias' = << alias >>
                                     /\ UNCHANGED << contractMap, reads >>
                                ELSE \* lines 100-103, and line 140 when
                                     \* the config has no delegates
                                     /\ stack' = SetTop(
                                          [Top EXCEPT
                                             !.alias = alias,
                                             !.config = config,
                                             !.byName = (aliasConfig = << >>),
                                             !.contract = built,
                                             !.phase = IF config.delegates # << >>
                                                         THEN "delegates"
                                                         ELSE "relations"])
                                     /\ contractMap' =
                                          MapSet(contractMap, alias, built)
                                     /\ reads' = Append(reads,
                                          Read(alias, Top.node.address, "process", "", << >>))
                                     /\ UNCHANGED returnedAlias
  /\ UNCHANGED << relations, spiderRoots, netField, ri, proxies, context,
                  spiderResult, run, firstRun >>
  /\ UNCHANGED notCrawlVars

\* lines 95-98 and 174-198, with lines 99-103 of maybeProcess: crawl(node) up
\* to the decision to process the node.  code is what getCode / the build
\* file report for the address.
CrawlNode ==
  /\ cpc = "crawling"
  /\ stack # << >>
  /\ Top.phase = "enter"
  /\ \E code \in CodeChoices(Top.node.address) :
     \E aliasConfig \in {ConfigOf(aliasTemplateKey(Top.node.aliasRender.template))} :
     \E alias \in {readAlias(Top.node.aliasRender)} :
     \E st \in {maybeStore(alias, Top.node.address, aliases)} :
     \E config \in {IF aliasConfig # << >> THEN aliasConfig[1]
                    ELSE IF code \in DOMAIN relations THEN relations[code]
                    ELSE EmptyConfig} :
     \E built \in {Handle(Top.node.address, {code})} :
       /\ netCode' = Extend(netCode, Top.node.address, code)
       /\ IF Misconfigured(aliasConfig, code)
            THEN \* lines 176-178: config for the template but no contract
                 /\ cpc' = "threw"
                 /\ spiderError' = "Found config but no contract"
                 /\ UNCHANGED << stack, returnedAlias, aliases, contractMap, stored, reads >>
            ELSE /\ stored' = StoreCall(alias, Top.node.address, "aliases", aliases, st)
                 /\ IF st.threw
                      THEN \* line 46
                           /\ cpc' = "threw"
                           /\ spiderError' = "Had alias, not address"
                           /\ UNCHANGED << stack, returnedAlias, aliases, contractMap, reads >>
                      ELSE /\ aliases' = st.into
                           /\ UNCHANGED << cpc, spiderError >>
                           /\ IF code = "" \/ ~st.stored
                                THEN \* lines 196 and 168-171: return alias
                                     /\ stack' = Pop
                                     /\ returnedAlias' = << alias >>
                                     /\ UNCHANGED << contractMap, reads >>
                                ELSE \* lines 100-103, and line 140 when
                                     \* the config has no delegates
                                     /\ stack' = SetTop(
                                          [Top EXCEPT
                                             !.alias = alias,
                                             !.config = config,
                                             !.byName = (aliasConfig = << >>),
                                             !.contract = built,
                                             !.phase = IF config.delegates # << >>
                                                         THEN "delegates"
                                                         ELSE "relations"])
                                     /\ contractMap' =
                                          IF config.delegates # << >> THEN contractMap
                                          ELSE MapSet(contractMap, alias, built)
                                     /\ reads' = Append(reads,
                                          Read(alias, Top.node.address, "process", "", << >>))
                                     /\ UNCHANGED returnedAlias
  /\ UNCHANGED << relations, spiderRoots, netField, ri, proxies, context,
                  spiderResult, run, firstRun >>
  /\ UNCHANGED notCrawlVars

\* lines 104-106 with 60-65: the delegates' field is read
DiscoverDelegates ==
  /\ cpc = "crawling"
  /\ stack # << >>
  /\ Top.phase = "delegates"
  /\ ~Top.discovered
  /\ \E field \in {getFieldKey(Top.config.delegates[1], Top.alias \o ":implementation")} :
     \E addresses \in FieldChoices(Top.node.address, field) :
       /\ netField' = Extend(netField, << Top.node.address, field >>, addresses)
       /\ stack' = SetTop([Top EXCEPT
                             !.discovered = TRUE,
                             !.k = 1,
                             !.kids = discoverNodes(addresses, Top.config.delegates[1],
                                                    Top.alias \o ":implementation")])
       /\ reads' = Append(reads,
            Read(Top.alias, Top.node.address, "delegates", field, addresses))
  /\ UNCHANGED << cpc, relations, spiderRoots, netCode, ri, returnedAlias, aliases, proxies,
                  contractMap, context, spiderResult, spiderError, run, firstRun,
                  stored >>
  /\ UNCHANGED notCrawlVars

\* a delegate chain comes back to an address it is processing under the config
\* of its contract name: the call about to be made gets that same config and
\* reads the same delegates under a longer alias, and so does every call below
Recurs(address) ==
  \E j \in DOMAIN stack :
    /\ stack[j].node.address = address
    /\ stack[j].byName
    /\ stack[j].phase = "delegates"
    /\ \A m \in (j + 1)..Len(stack) : stack[m].via = "delegate"

\* lines 107-118: crawl is called for the next delegate
CrawlDelegate ==
  /\ cpc = "crawling"
  /\ stack # << >>
  /\ Top.phase = "delegates"
  /\ Top.discovered
  /\ returnedAlias = << >>
  /\ Top.k <= Len(Top.kids)
  /\ IF Recurs(Top.kids[Top.k].address)
       THEN /\ cpc' = "diverging"
            /\ stack' = stack
       ELSE /\ cpc' = cpc
            /\ stack' = Append(stack, Frame(Top.kids[Top.k], "delegate"))
  /\ UNCHANGED << relations, spiderRoots, netCode, netField, ri, returnedAlias, aliases,
                  proxies, contractMap, context, spiderResult, spiderError, run,
                  firstRun, stored, reads >>
  /\ UNCHANGED notCrawlVars

\* lines 119-135: the delegate's crawl returned its alias
DelegateCrawled ==
  /\ cpc = "crawling"
  /\ stack # << >>
  /\ Top.phase = "delegates"
  /\ returnedAlias # << >>
  /\ returnedAlias' = << >>
  /\ \E st \in {maybeStore(Top.alias, Top.kids[Top.k].address, proxies)} :
       IF ~MapHas(contractMap, returnedAlias[1])
         THEN \* lines 120-122
              /\ cpc' = "threw"
              /\ spiderError' = "Failed to crawl"
              /\ UNCHANGED << stack, proxies, stored >>
         ELSE /\ stored' = StoreCall(Top.alias, Top.kids[Top.k].address, "proxies",
                                     proxies, st)
              /\ IF st.threw
                   THEN /\ cpc' = "threw"
                        /\ spiderError' = "Had alias, not address"
                        /\ UNCHANGED << stack, proxies >>
                   ELSE /\ proxies' = st.into
                        /\ stack' = SetTop([Top EXCEPT
                             !.k = @ + 1,
                             !.contract = Handle(Top.node.address,
                                Top.contract.abi \cup MapGet(contractMap, returnedAlias[1]).abi)])
                        /\ UNCHANGED << cpc, spiderError >>
  /\ UNCHANGED << relations, spiderRoots, netCode, netField, ri, aliases,
                  contractMap, context, spiderResult, run, firstRun, reads >>
  /\ UNCHANGED notCrawlVars

\* line 140, after the delegates: contracts.set(alias, contract)
DelegatesDone ==
  /\ cpc = "crawling"
  /\ stack # << >>
  /\ Top.phase = "delegates"
  /\ Top.discovered
  /\ returnedAlias = << >>
  /\ Top.k > Len(Top.kids)
  /\ contractMap' = MapSet(contractMap, Top.alias, Top.contract)
  /\ stack' = SetTop([Top EXCEPT !.phase = "relations", !.discovered = FALSE,
                                 !.kids = << >>, !.k = 1, !.r = 1])
  /\ UNCHANGED << cpc, relations, spiderRoots, netCode, netField, ri, returnedAlias, aliases,
                  proxies, context, spiderResult, spiderError, run, firstRun,
                  stored, reads >>
  /\ UNCHANGED notCrawlVars

\* lines 142-144 with 60-65: the field of the next relation is read
DiscoverRelation ==
  /\ cpc = "crawling"
  /\ stack # << >>
  /\ Top.phase = "relations"
  /\ ~Top.discovered
  /\ Top.r <= Len(Top.config.relations)
  /\ \E sub \in {Top.config.relations[Top.r]} :
     \E field \in {getFieldKey(sub.config, sub.key)} :
     \E addresses \in FieldChoices(Top.node.address, field) :
       /\ netField' = Extend(netField, << Top.node.address, field >>, addresses)
       /\ stack' = SetTop([Top EXCEPT
                             !.discovered = TRUE,
                             !.k = 1,
                             !.kids = discoverNodes(addresses, sub.config, sub.key)])
       /\ reads' = Append(reads,
            Read(Top.alias, Top.node.address, "relations", sub.key, addresses))
  /\ UNCHANGED << cpc, relations, spiderRoots, netCode, ri, returnedAlias, aliases, proxies,
                  contractMap, context, spiderResult, spiderError, run, firstRun,
                  stored >>
  /\ UNCHANGED notCrawlVars

\* lines 145-156: crawl is called for the next node of the relation
CrawlRelation ==
  /\ cpc = "crawling"
  /\ stack # << >>
  /\ Top.phase = "relations"
  /\ Top.discovered
  /\ returnedAlias = << >>
  /\ Top.k <= Len(Top.kids)
  /\ stack' = Append(stack, Frame(Top.kids[Top.k], "relation"))
  /\ UNCHANGED << cpc, relations, spiderRoots, netCode, netField, ri, returnedAlias, aliases,
                  proxies, contractMap, context, spiderResult, spiderError, run,
                  firstRun, stored, reads >>
  /\ UNCHANGED notCrawlVars

\* lines 158-162 with context[subKey] = [subContract]: the list of the key is
\* started anew for every node
RelationCrawledFreshList ==
  /\ cpc = "crawling"
  /\ stack # << >>
  /\ Top.phase = "relations"
  /\ returnedAlias # << >>
  /\ returnedAlias' = << >>
  /\ stack' = SetTop([Top EXCEPT !.k = @ + 1])
  /\ \E subKey \in {Top.config.relations[Top.r].key} :
       context' =
         IF MapHas(contractMap, returnedAlias[1])
           THEN MapSet(context, subKey,
                       << MapGet(contractMap, returnedAlias[1]) >>)
           ELSE context
  /\ UNCHANGED << cpc, relations, spiderRoots, netCode, netField, ri, aliases,
                  proxies, contractMap, spiderResult, spiderError, run, firstRun,
                  stored, reads >>
  /\ UNCHANGED notCrawlVars

\* lines 158-162: the relation's crawl returned its alias
RelationCrawled ==
  /\ cpc = "crawling"
  /\ stack # << >>
  /\ Top.phase = "relations"
  /\ returnedAlias # << >>
  /\ returnedAlias' = << >>
  /\ stack' = SetTop([Top EXCEPT !.k = @ + 1])
  /\ \E subKey \in {Top.config.relations[Top.r].key} :
       context' =
         IF MapHas(contractMap, returnedAlias[1])
           THEN MapSet(context, subKey,
                       Append(IF MapHas(context, subKey) THEN MapGet(context, subKey)
                              ELSE << >>,
                              MapGet(contractMap, returnedAlias[1])))
           ELSE context
  /\ UNCHANGED << cpc, relations, spiderRoots, netCode, netField, ri, aliases,
                  proxies, contractMap, spiderResult, spiderError, run, firstRun,
                  stored, reads >>
  /\ UNCHANGED notCrawlVars

\* lines 143-164: the nodes of the relation are done; on to the next relation
RelationDone ==
  /\ cpc = "crawling"
  /\ stack # << >>
  /\ Top.phase = "relations"
  /\ Top.discovered
  /\ returnedAlias = << >>
  /\ Top.k > Len(Top.kids)
  /\ stack' = SetTop([Top EXCEPT !.r = @ + 1, !.discovered = FALSE,
                                 !.kids = << >>, !.k = 1])
  /\ UNCHANGED << cpc, relations, spiderRoots, netCode, netField, ri, returnedAlias, aliases,
                  proxies, contractMap, context, spiderResult, spiderError, run,
                  firstRun, stored, reads >>
  /\ UNCHANGED notCrawlVars

\* lines 167-171: maybeProcess returns the alias
CrawlReturn ==
  /\ cpc = "crawling"
  /\ stack # << >>
  /\ Top.phase = "relations"
  /\ ~Top.discovered
  /\ returnedAlias = << >>
  /\ Top.r > Len(Top.config.relations)
  /\ returnedAlias' = << Top.alias >>
  /\ stack' = Pop
  /\ UNCHANGED << cpc, relations, spiderRoots, netCode, netField, ri, aliases,
                  proxies, contractMap, context, spiderResult, spiderError, run,
                  firstRun, stored, reads >>
  /\ UNCHANGED notCrawlVars

NextCrawl ==
  \/ SpiderStart
  \/ CrawlRoot
  \/ RootCrawled
  \/ SpiderReturn
  \/ SpiderAgain
  \/ CrawlNode
  \/ DiscoverDelegates
  \/ CrawlDelegate
  \/ DelegateCrawled
  \/ DelegatesDone
  \/ DiscoverRelation
  \/ CrawlRelation
  \/ RelationCrawled
  \/ RelationDone
  \/ CrawlReturn

(***************************************************************************)
(* DeploymentManager.getSigners and getSigner                              *)
(***************************************************************************)
MaxSignerCalls == 4

\* the address strings: "A1" and "a1" are one address in two spellings
AddressStrings == {"A1", "a1", "a2", "a3"}

\* String.toLowerCase on the address strings
toLowerCase(address) == IF address = "A1" THEN "a1" ELSE address

\* what hre.ethers.getSigners() can return: the provider's accounts
ProviderChoices == {<< "A1" >>, << "A1", "a2" >>, << "a2", "A1" >>}

\* lines 268-271: getManagedSigner(signer): a new wrapper, the n-th made
getManagedSigner(address, n) == [address |-> address, wrapper |-> n]

\* line 322: this._signers.find(s => s.address.toLowerCase() === address.toLowerCase())
findSigner(list, address) ==
  IF \E i \in DOMAIN list : toLowerCase(list[i].address) = toLowerCase(address)
    THEN << list[CHOOSE i \in DOMAIN list :
                   /\ toLowerCase(list[i].address) = toLowerCase(address)
                   /\ \A j \in 1..(i - 1) :
                        toLowerCase(list[j].address) # toLowerCase(address)] >>
    ELSE << >>

\* lines 308-315: getSigners(): the list after the call, which is what it returns
getSigners(list, made) ==
  IF Len(list) > 0 THEN list
  ELSE [i \in DOMAIN providerSigners |-> getManagedSigner(providerSigners[i], made + i)]

\* lines 285-306: a new manager; this._signers = []
SignersStart ==
  /\ gpc = "ready"
  /\ providerSigners \in ProviderChoices
  /\ managedSigners = << >>
  /\ wrappersMade = 0
  /\ signerCalls = 0
  /\ defaultReturned = << >>

\* the signers when another component is exercised
SignersIdle ==
  /\ gpc = "idle"
  /\ providerSigners = << >>
  /\ managedSigners = << >>
  /\ wrappersMade = 0
  /\ signerCalls = 0
  /\ defaultReturned = << >>

\* lines 308-315: getSigners(), called on the manager
GetSigners ==
  /\ gpc = "ready"
  /\ signerCalls < MaxSignerCalls
  /\ signerCalls' = signerCalls + 1
  /\ managedSigners' = getSigners(managedSigners, wrappersMade)
  /\ wrappersMade' = wrappersMade + (Len(managedSigners') - Len(managedSigners))
  /\ UNCHANGED << gpc, providerSigners, defaultReturned >>
  /\ UNCHANGED notSignerVars

\* lines 317-321: getSigner() without address; also deployOpts (line 344) and
\* contract (line 566)
GetSigner ==
  /\ gpc = "ready"
  /\ signerCalls < MaxSignerCalls
  /\ signerCalls' = signerCalls + 1
  /\ managedSigners' = getSigners(managedSigners, wrappersMade)
  /\ wrappersMade' = wrappersMade + (Len(managedSigners') - Len(managedSigners))
  /\ defaultReturned' = Append(defaultReturned,
                               IF managedSigners' = << >> THEN << >>
                               ELSE << managedSigners'[1] >>)
  /\ UNCHANGED << gpc, providerSigners >>
  /\ UNCHANGED notSignerVars

\* lines 323-332: getSigner(address)
GetSignerOf(address) ==
  /\ gpc = "ready"
  /\ signerCalls < MaxSignerCalls
  /\ signerCalls' = signerCalls + 1
  /\ IF findSigner(managedSigners, address) # << >>
       THEN UNCHANGED << managedSigners, wrappersMade >>
       ELSE /\ managedSigners' = Append(managedSigners,
                                        getManagedSigner(address, wrappersMade + 1))
            /\ wrappersMade' = wrappersMade + 1
  /\ UNCHANGED << gpc, providerSigners, defaultReturned >>
  /\ UNCHANGED notSignerVars

NextSigners ==
  \/ GetSigners
  \/ GetSigner
  \/ \E address \in AddressStrings : GetSignerOf(address)

(***************************************************************************)
(* deployments/mumbai/usdc/deploy.ts                                       *)
(***************************************************************************)
MaxScriptRuns == 2

\* a statement of the script: a manager call for an alias, or a number of
\* transactions sent
Statement(kind, alias, txs) == [kind |-> kind, alias |-> alias, txs |-> txs]

\* lines 20-123 and 125-178: deployContracts, then mintTokens
ScriptStatements ==
  << Statement("deploy", "polygonBridgeReceiver", 0),
     Statement("deploy", "bridgeTimelock", 0),
     Statement("send", "polygonBridgeReceiver", 1),
     Statement("deploy", "USDC:admin", 0),
     Statement("clone", "USDC:implementation", 0),
     Statement("clone", "USDC", 0),
     Statement("idempotent", "USDC", 2),
     Statement("clone", "WBTC", 0),
     Statement("clone", "WETH", 0),
     Statement("clone", "WMATIC", 0),
     Statement("deployComet", "comet", 0),
     Statement("deploy", "bulker", 0),
     Statement("deploy", "fauceteer", 0),
     Statement("idempotent", "WMATIC", 1),
     Statement("idempotent", "WETH", 1),
     Statement("idempotent", "USDC", 2),
     Statement("idempotent", "WBTC", 1) >>

\* the aliases the script binds
ScriptAliases ==
  {ScriptStatements[i].alias :
     i \in {j \in DOMAIN ScriptStatements :
              ScriptStatements[j].kind \in {"deploy", "clone", "deployComet"}}}

\* the idempotent() calls of the script
IdempotentStatements ==
  {i \in DOMAIN ScriptStatements : ScriptStatements[i].kind = "idempotent"}

\* something the script made happen on the network
Issued(kind, at) == [kind |-> kind, at |-> at]

RECURSIVE Transactions(_, _)
Transactions(at, n) ==
  IF n = 0 THEN << >> ELSE Append(Transactions(at, n - 1), Issued("transaction", at))

\* deploy() is called on a manager: one whose contractsCache is not a Map
\* (null until the first lookup spiders, undefined once
\* DeploymentManager.spider has assigned crawl.contracts, part_002:519), or one
\* whose contractsCache is a Map, as its declared type says, holding no alias or
\* every alias of the script
ScriptStart ==
  /\ kpc = "running"
  /\ step = 1
  /\ scriptRun = 1
  /\ cacheIsMap \in BOOLEAN
  /\ held \in {{}, ScriptAliases}
  /\ ~cacheIsMap => held = {}
  /\ scriptCounter = 0
  /\ conditionsNow \in [IdempotentStatements -> BOOLEAN]
  /\ initializeOk \in BOOLEAN
  /\ heldAtStart = held
  /\ counterAtStart = 0
  /\ issued = << >>

\* the script when another component is exercised
ScriptIdle ==
  /\ kpc = "idle"
  /\ step = 1
  /\ scriptRun = 1
  /\ cacheIsMap = FALSE
  /\ held = {}
  /\ scriptCounter = 0
  /\ conditionsNow = [i \in IdempotentStatements |-> FALSE]
  /\ initializeOk = TRUE
  /\ heldAtStart = {}
  /\ counterAtStart = 0
  /\ issued = << >>

\* deploy.ts lines 26, 35, 61-63, 87-94, 107, 114 with part_002:386-421:
\* deploymentManager.deploy / clone (alias, ...) without force
ScriptDeploy ==
  /\ kpc = "running"
  /\ step \in DOMAIN ScriptStatements
  /\ ScriptStatements[step].kind \in {"deploy", "clone"}
  /\ IF ~cacheIsMap
       THEN \* part_002:565: contracts.get on undefined
            /\ kpc' = "threw"
            /\ UNCHANGED << step, held, scriptCounter, issued >>
       ELSE /\ kpc' = kpc
            /\ step' = step + 1
            /\ IF ScriptStatements[step].alias \in held
                 THEN UNCHANGED << held, scriptCounter, issued >>
                 ELSE /\ held' = held \cup {ScriptStatements[step].alias}
                      /\ scriptCounter' = scriptCounter + 1
                      /\ issued' = Append(issued, Issued(ScriptStatements[step].kind, step))
  /\ UNCHANGED << scriptRun, cacheIsMap, conditionsNow, initializeOk, heldAtStart,
                  counterAtStart >>
  /\ UNCHANGED notScriptVars

\* deploy.ts lines 97-104: deployComet(deploymentManager, deploySpec, ...),
\* which deploys what the manager does not hold
ScriptDeployComet ==
  /\ kpc = "running"
  /\ step \in DOMAIN ScriptStatements
  /\ ScriptStatements[step].kind = "deployComet"
  /\ step' = step + 1
  /\ IF ScriptStatements[step].alias \in held
       THEN UNCHANGED << held, scriptCounter, issued >>
       ELSE /\ held' = held \cup {ScriptStatements[step].alias}
            /\ scriptCounter' = scriptCounter + 1
            /\ issued' = Append(issued, Issued("deploy", step))
  /\ UNCHANGED << kpc, scriptRun, cacheIsMap, conditionsNow, initializeOk, heldAtStart,
                  counterAtStart >>
  /\ UNCHANGED notScriptVars

\* deploy.ts lines 51-58: await polygonBridgeReceiver.initialize(...), outside
\* any idempotent(): the transaction is sent; when the receiver refuses it the
\* script rejects, before the transaction is sent (gas estimation) or after
ScriptSend ==
  /\ kpc = "running"
  /\ step \in DOMAIN ScriptStatements
  /\ ScriptStatements[step].kind = "send"
  /\ IF initializeOk
       THEN /\ issued' = issued \o Transactions(step, ScriptStatements[step].txs)
            /\ kpc' = kpc
            /\ step' = step + 1
       ELSE /\ \E sent \in BOOLEAN :
                 issued' = IF sent
                             THEN issued \o Transactions(step, ScriptStatements[step].txs)
                             ELSE issued
            /\ kpc' = "threw"
            /\ step' = step
  /\ UNCHANGED << scriptRun, cacheIsMap, held, scriptCounter, conditionsNow, initializeOk,
                  heldAtStart, counterAtStart >>
  /\ UNCHANGED notScriptVars

\* deploy.ts lines 67-85, 134-141, 144-151, 157-166, 169-177 with
\* part_002:359-366: deploymentManager.idempotent(condition, action)
ScriptIdempotent ==
  /\ kpc = "running"
  /\ step \in DOMAIN ScriptStatements
  /\ ScriptStatements[step].kind = "idempotent"
  /\ step' = step + 1
  /\ issued' = IF conditionsNow[step]
                 THEN issued \o Transactions(step, ScriptStatements[step].txs)
                 ELSE issued
  /\ UNCHANGED << kpc, scriptRun, cacheIsMap, held, scriptCounter, conditionsNow,
                  initializeOk, heldAtStart, counterAtStart >>
  /\ UNCHANGED notScriptVars

\* deploy.ts lines 15-17: deploy() returns what deployContracts returned
ScriptReturn ==
  /\ kpc = "running"
  /\ step = Len(ScriptStatements) + 1
  /\ kpc' = "returned"
  /\ UNCHANGED << step, scriptRun, cacheIsMap, held, scriptCounter, conditionsNow,
                  initializeOk, heldAtStart, counterAtStart, issued >>
  /\ UNCHANGED notScriptVars

\* deploy() is run again on the same manager, after a run that returned
ScriptAgain ==
  /\ kpc = "returned"
  /\ scriptRun < MaxScriptRuns
  /\ scriptRun' = scriptRun + 1
  /\ kpc' = "running"
  /\ step' = 1
  /\ conditionsNow' \in [IdempotentStatements -> BOOLEAN]
  /\ initializeOk' \in BOOLEAN
  /\ heldAtStart' = held
  /\ counterAtStart' = scriptCounter
  /\ issued' = << >>
  /\ UNCHANGED << cacheIsMap, held, scriptCounter >>
  /\ UNCHANGED notScriptVars

NextScript ==
  \/ ScriptDeploy
  \/ ScriptDeployComet
  \/ ScriptSend
  \/ ScriptIdempotent
  \/ ScriptReturn
  \/ ScriptAgain

(***************************************************************************)
(* Specifications                                                          *)
(***************************************************************************)
InitRunner ==
  RunnerStart /\ RetryIdle /\ DeployIdle /\ CrawlIdle /\ ScenariosIdle /\ PauseIdle /\ SignersIdle
  /\ ScriptIdle
SpecRunner == InitRunner /\ [][NextRunner]_vars

InitRetry ==
  RetryStart /\ RunnerIdle /\ DeployIdle /\ CrawlIdle /\ ScenariosIdle /\ PauseIdle /\ SignersIdle
  /\ ScriptIdle
SpecRetry == InitRetry /\ [][NextRetry]_vars

InitDeploy ==
  DeployStart /\ RunnerIdle /\ RetryIdle /\ CrawlIdle /\ ScenariosIdle /\ PauseIdle /\ SignersIdle
  /\ ScriptIdle
SpecDeploy == InitDeploy /\ [][NextDeploy]_vars

InitCrawl ==
  CrawlStart /\ RunnerIdle /\ RetryIdle /\ DeployIdle /\ ScenariosIdle /\ PauseIdle /\ SignersIdle
  /\ ScriptIdle
SpecCrawl == InitCrawl /\ [][NextCrawl]_vars

\* every await of spider and crawl resumes once what it waits for has settled
FairSpecCrawl == SpecCrawl /\ WF_vars(NextCrawl)

InitScenarios ==
  ScenariosStart /\ RunnerIdle /\ RetryIdle /\ DeployIdle /\ CrawlIdle /\ PauseIdle /\ SignersIdle
  /\ ScriptIdle
SpecScenarios == InitScenarios /\ [][NextScenarios]_vars

InitPause ==
  PauseStart /\ RunnerIdle /\ RetryIdle /\ DeployIdle /\ CrawlIdle /\ ScenariosIdle
             /\ SignersIdle
  /\ ScriptIdle
SpecPause == InitPause /\ [][NextPause]_vars

InitSigners ==
  SignersStart /\ RunnerIdle /\ RetryIdle /\ DeployIdle /\ CrawlIdle /\ ScenariosIdle
               /\ PauseIdle /\ ScriptIdle
SpecSigners == InitSigners /\ [][NextSigners]_vars

InitScript ==
  ScriptStart /\ RunnerIdle /\ RetryIdle /\ DeployIdle /\ CrawlIdle /\ ScenariosIdle
              /\ PauseIdle /\ SignersIdle
SpecScript == InitScript /\ [][NextScript]_vars

Init ==
  \/ InitRunner
  \/ InitRetry
  \/ InitDeploy
  \/ InitCrawl
  \/ InitScenarios
  \/ InitPause
  \/ InitSigners
  \/ InitScript
Next ==
  \/ NextRunner
  \/ NextRetry
  \/ NextDeploy
  \/ NextCrawl
  \/ NextScenarios
  \/ NextPause
  \/ NextSigners
  \/ NextScript
Spec == Init /\ [][Next]_vars

(***************************************************************************)
(* Properties of Runner.run                                                *)
(***************************************************************************)
\* the run is over: it returned a Result or rejected
RunReturned == pc \in {"done", "pushed"}
RunRejected == pc \in {"rejected", "logged"}

\* s_1 * ... * s_n over the mapped solve results
RECURSIVE Product(_)
Product(lens) == IF lens = << >> THEN 1 ELSE Head(lens) * Product(Tail(lens))

ProductOfSizes == Product([c \in 1..constraints |-> Len(solutionChoices[c])])

\* every choice of one solution per constraint, behind the leading identity
AllCombinations ==
  {f \in [1..(constraints + 1) -> {identity} \cup {Sol(c, k) : c \in 1..MaxConstraints, k \in 1..MaxSols}] :
     /\ f[1] = identity
     /\ \A c \in 1..constraints :
          \E k \in DOMAIN solutionChoices[c] : f[c + 1] = solutionChoices[c][k]}

\* C1: when nothing throws, run executes the property once for each
\* combination of one solution per constraint, s_1 * ... * s_n times in all,
\* and returns a Result with error null and numSolutionSets equal to that product.
C1_PropertyOncePerCombination ==
  (RunReturned /\ thrownAt = << >>) =>
    /\ result[1].error = Null
    /\ result[1].numSolutionSets = ProductOfSizes
    /\ Len(executed) = ProductOfSizes
    /\ {executed[i] : i \in DOMAIN executed} = AllCombinations
    /\ \A i, j \in DOMAIN executed : i # j => executed[i] # executed[j]

\* C1 witness: solution lists of sizes 2 and 3, six property runs, no throw
C1_Witness ==
  /\ pc = "done"
  /\ thrownAt = << >>
  /\ constraints = 2
  /\ Len(solutionChoices[1]) = 2
  /\ Len(solutionChoices[2]) = 3
  /\ Len(executed) = 6

\* C2: when a trial begins applying its solutions the world holds no change
\* made by the initial context build, by a solve call or by an earlier trial.
C2_TrialStartsFromBaseline ==
  (pc = "apply" /\ si = 1) => world \subseteq {<<"trial", ci>>}

\* C3: with zero constraints (absent or empty) run performs exactly one trial,
\* whose only solution is identity and whose property sees the initializer's
\* context; the property is executed once and numSolutionSets is 1.
C3_ZeroConstraintsOneTrial ==
  /\ (pc = "property" /\ constraints = 0) => (ctx = << >> /\ combo = <<identity>>)
  /\ (RunReturned /\ constraints = 0) =>
       /\ trials = 1
       /\ result[1].numSolutionSets = 1
       /\ Len(executed) <= 1
       /\ thrownAt = << >> => (executed = << <<identity>> >> /\ result[1].error = Null)

\* C3 witness: a run with the constraints absent has returned after its one trial
C3_Witness ==
  /\ pc = "done"
  /\ scenario.constraints = "absent"
  /\ thrownAt = << >>
  /\ executed = << <<identity>> >>

\* C4: when a solution, a check or the property throws in the k-th trial, run
\* returns a Result whose error is the thrown value and whose numSolutionSets
\* is k, and nothing of a combination after the k-th is executed.
C4_ThrowAbortsScenario ==
  (RunReturned /\ caught # << >>) =>
    /\ result[1].error = caught[1]
    /\ result[1].numSolutionSets = thrownAt[2]
    /\ trials = thrownAt[2]
    /\ touched \subseteq 1..thrownAt[2]
    /\ Len(executed) <= thrownAt[2]

\* C4 witness: the property threw on the 2nd of 6 combinations
C4_Witness ==
  /\ pc = "done"
  /\ thrownAt = <<"property", 2>>
  /\ Len(comboList) = 6
  /\ result[1].numSolutionSets = 2

\* C5: every trial started, whatever its outcome, is followed by exactly one
\* _revertAndSnapshot call, passed the latest snapshot handle, before the next
\* trial starts or run finishes.
C5_EveryTrialReverted ==
  /\ revertArgOk
  /\ pc \in {"ctx", "return", "done", "rejected"} => reverts = trials

\* C6: an error thrown by a solve or by the initializer is reported as a
\* failing Result carrying the error and the number of trials attempted, and
\* the world is reverted to the initial snapshot before run finishes.
C6_SolveErrorReported ==
  (thrownAt # << >> /\ thrownAt[1] \in {"initializer", "solve", "context"}
     /\ (RunReturned \/ RunRejected)) =>
    /\ result # << >>
    /\ result[1].error \in Errors
    /\ result[1].numSolutionSets = trials
    /\ reverts >= 1
    /\ world = {}

\* the run has passed line 89: the generator over the combinations exists
EnumerationReached ==
  \/ pc \in {"ctx", "apply", "check", "property", "catch", "finally", "return",
             "done", "pushed"}
  \/ pc \in {"rejected", "logged"} /\ thrownAt[1] = "context"

\* the run has returned or rejected
RunFinished == RunReturned \/ RunRejected

\* a solve result that is a list without solutions
EmptyList(s) == s.kind = "list" /\ s.sols = << >>

\* the list the claim gives for a solve result
Normalised(s) ==
  IF s.kind \in {"null", "undefined"} THEN << identity >>
  ELSE IF s.kind = "one" THEN << s.sols[1] >>
  ELSE s.sols

\* C17: each constraint's solve result is normalised to a non-empty list of
\* solutions, so every run that reaches the enumeration performs at least one
\* trial, whatever the constraints return.
C17_AtLeastOneTrial ==
  EnumerationReached =>
    /\ \A c \in 1..constraints : solutionChoices[c] # << >>
    /\ RunFinished => trials >= 1

\* C17 as amended: each solve result is normalised to a list (null and
\* undefined to [identity], one solution to a one-element list, a list to
\* itself); a run that reaches the enumeration performs at least one trial
\* unless a constraint returned an empty list, and then it performs none and
\* returns a Result without error whose numSolutionSets is 0.
C17_NormalisedToList ==
  EnumerationReached =>
    /\ \A c \in 1..constraints : solutionChoices[c] = Normalised(solved[c])
    /\ RunFinished =>
         IF \E c \in 1..constraints : EmptyList(solved[c])
           THEN /\ trials = 0
                /\ RunReturned
                /\ result[1] = [error |-> Null, numSolutionSets |-> 0]
           ELSE trials >= 1

\* C17 case reached: one constraint resolved to null and the other to an
\* empty list; the run returned without a trial
C17_Witness ==
  /\ pc = "done"
  /\ constraints = 2
  /\ solved[1].kind = "null"
  /\ solutionChoices[1] = << identity >>
  /\ EmptyList(solved[2])
  /\ trials = 0
  /\ result[1].numSolutionSets = 0

\* the context is what the solutions applied so far have returned, in the
\* order of their constraints
ContextOfApplied(upto) ==
  /\ \A i \in DOMAIN ctx : \E j \in 2..upto : ctx[i] = combo[j]
  /\ \A i, j \in DOMAIN ctx : i < j => ctx[i].c < ctx[j].c

\* the combination holds identity, then one solution of each constraint in
\* the order of the constraints
InConstraintOrder ==
  /\ Len(combo) = constraints + 1
  /\ combo[1] = identity
  /\ \A c \in 1..constraints :
       \E k \in DOMAIN solutionChoices[c] : combo[c + 1] = solutionChoices[c][k]

\* C24: in each trial the solutions of the combination are applied in
\* constraint order, each receiving the context the previous one returned (or
\* the unchanged context when it returned nothing); then every constraint's
\* check is run against the final context; the property is executed only
\* after all checks passed, so a trial whose check throws never executes it.
C24_TrialOrder ==
  /\ [](pc = "apply" =>
          (InConstraintOrder /\ si \in 1..Len(combo) /\ ki = 1 /\ ContextOfApplied(si - 1)))
  /\ [](pc = "check" =>
          (si = Len(combo) + 1 /\ ki \in 1..constraints /\ ContextOfApplied(Len(combo))))
  /\ [](pc = "property" =>
          (si = Len(combo) + 1 /\ ki = constraints + 1 /\ ContextOfApplied(Len(combo))))
  /\ [][(pc = "apply" /\ pc' \in {"apply", "check", "property"}) =>
          (si' = si + 1 /\ ctx' \in {ctx, Append(ctx, combo[si])})]_vars
  /\ [][(pc = "check" /\ pc' \in {"check", "property"}) =>
          (ki' = ki + 1 /\ ctx' = ctx /\ executed' = executed)]_vars
  /\ [][executed' # executed =>
          (pc = "property" /\ executed' = Append(executed, combo))]_vars
  /\ []((thrownAt # << >> /\ thrownAt[1] = "check") =>
          \A i \in DOMAIN executed : executed[i] # comboList[thrownAt[2]])

\* C24 case reached: in the second trial of a run with two constraints both
\* solutions returned a context, the first check passed and the second threw;
\* only the first trial's property was executed
C24_Witness ==
  /\ pc = "done"
  /\ constraints = 2
  /\ thrownAt = <<"check", 2>>
  /\ ki = 2
  /\ Len(ctx) = 2
  /\ executed = << comboList[1] >>

\* C25: every constraint's solve is called exactly once, all of them with
\* the initial context and before any solve result is awaited, and no trial
\* starts until all solve calls have resolved, in whatever order they do.
C25_SolveOnceBeforeTrials ==
  /\ [][solveCalls' # solveCalls =>
          /\ pc = "solve"
          /\ trials = 0
          /\ \A c \in 1..constraints : solveCalls[c] = 0 /\ solveCalls'[c] = 1
          /\ \A c \in DOMAIN solveCalls : c > constraints => solveCalls'[c] = 0
          /\ pending' = 1..constraints
          /\ solved' = << >>
          /\ world' = world]_vars
  /\ [](pc \in {"start", "init", "solve"} => \A c \in DOMAIN solveCalls : solveCalls[c] = 0)
  /\ [](pc = "await" => (trials = 0 /\ DOMAIN solved = (1..constraints) \ pending))
  /\ [](EnumerationReached =>
          /\ pending = {}
          /\ DOMAIN solved = 1..constraints
          /\ \A c \in 1..constraints : solveCalls[c] = 1)
  /\ [](trials > 0 => EnumerationReached)

\* C25 case reached: of two solve calls the second has resolved and the
\* first is still pending; no trial has started
C25_Witness ==
  /\ pc = "await"
  /\ constraints = 2
  /\ pending = {1}
  /\ DOMAIN solved = {2}
  /\ solveCalls[1] = 1
  /\ solveCalls[2] = 1
  /\ trials = 0

(***************************************************************************)
(* Properties of runScenarios                                              *)
(***************************************************************************)
\* every running scenario against every base, in the order of the loops
ExpectedRuns ==
  [i \in 1..(Len(bases) * Len(runningScenarios)) |->
     << bases[((i - 1) \div Len(runningScenarios)) + 1],
        runningScenarios[((i - 1) % Len(runningScenarios)) + 1] >>]

\* the runs of the bases before the current one
RunsOfEarlierBases == (baseIdx - 1) * Len(runningScenarios)

\* C16: in runScenarios a failing Result or an error escaping runner.run does
\* not keep the remaining scenarios from being run: the runner.run calls made
\* are, in order, every running scenario once against every base, whatever
\* the outcomes of the earlier ones.
C16_EveryScenarioRun ==
  /\ Len(ranLog) <= Len(ExpectedRuns)
  /\ \A i \in DOMAIN ranLog : ranLog[i] = ExpectedRuns[i]
  /\ spc = "scenario" => Len(ranLog) = RunsOfEarlierBases + (scenIdx - 1)
  /\ spc = "running" => Len(ranLog) = RunsOfEarlierBases + scenIdx
  /\ spc \in {"base", "aborted"} => Len(ranLog) = RunsOfEarlierBases
  /\ spc = "reported" => ranLog = ExpectedRuns

\* C16 case reached: with two bases and two scenarios, the first run rejected
\* and the second returned a failing Result, and all four runs were made
C16_Witness ==
  /\ spc = "reported"
  /\ Len(bases) = 2
  /\ Len(runningScenarios) = 2
  /\ workerErrors >= 1
  /\ \A i \in DOMAIN allResults :
       (allResults[i].base = bases[1] /\ ~allResults[i].skipped)
         => (allResults[i].scenario = runningScenarios[2] /\ allResults[i].error \in Errors)
  /\ Len(ranLog) = 4

(***************************************************************************)
(* Properties of Comet.pause                                               *)
(***************************************************************************)
\* no call yet, or the last call did not change the flags
FlagsAsBefore == pauseFlags = lastPause.before

Budget == OrDefault(retriesArg, DefaultRetries)

Settled == rpc = "settled"

\* C7: retry(op, retries) of an op that fails N times and then succeeds
\* resolves with op's result after exactly N+1 invocations when retries >= N,
\* and rejects with the error of the last attempt after exactly retries+1
\* invocations when retries < N.
C7_RetryBudget ==
  (entry = "retry" /\ timeLimit = << >> /\ Settled) =>
    /\ fails <= Budget =>
         /\ outcome = <<"resolved", "value">>
         /\ invocations = fails + 1
    /\ fails > Budget =>
         /\ outcome[1] = "rejected"
         /\ outcome[2] = OpError(Budget + 1)
         /\ invocations = Budget + 1

\* C7 witness: an op failing 3 times under retries = 2 was invoked 3 times and
\* the call rejected with the third error
C7_Witness ==
  /\ Settled
  /\ entry = "retry"
  /\ timeLimit = << >>
  /\ fails = 3
  /\ retriesArg = <<2>>
  /\ invocations = 3
  /\ outcome[1] = "rejected"

\* C8: retry with retries == 0 invokes op once and, if the attempt fails,
\* rejects with that same error, with no reset of the signers' pending counts,
\* no sleep and no second invocation.
C8_NoRetryAtZero ==
  (entry = "retry" /\ retriesArg = <<0>>) =>
    /\ invocations <= 1
    /\ \A i \in DOMAIN events : events[i].ev = "invoke"
    /\ Settled =>
         /\ invocations = 1
         /\ attemptError # << >> =>
              (outcome[1] = "rejected" /\ outcome[2] = attemptError[1])
         /\ (fails >= 1 /\ timeouts = 0) =>
              (outcome[1] = "rejected" /\ outcome[2] = OpError(1))

\* C8 witness: a failing op under retries = 0 has made the call reject
C8_Witness ==
  /\ Settled
  /\ entry = "retry"
  /\ retriesArg = <<0>>
  /\ fails >= 1
  /\ outcome[1] = "rejected"
  /\ \E i \in DOMAIN pendingCounts : pendingCounts[i] = 1

\* C9: idempotent evaluates condition exactly once; when it resolves falsy
\* the action is never invoked and the call resolves without a value; when it
\* resolves truthy the action runs under retry, exactly once if its first
\* attempt succeeds, and is never invoked again after a success.
C9_Idempotent ==
  entry = "idempotent" =>
    /\ conditionEvals = (IF rpc = "call" THEN 0 ELSE 1)
    /\ ~ConditionTruthy(condition) =>
         /\ invocations = 0
         /\ Settled => outcome \in {<<"resolved", Undefined>>,
                                     <<"rejected", "condition error">>}
    /\ invocations <= fails + 1
    /\ (Settled /\ outcome[1] = "resolved" /\ ConditionTruthy(condition)) =>
         /\ invocations = fails + 1
         /\ outcome[2] = "value"
    /\ (Settled /\ ConditionTruthy(condition) /\ fails = 0 /\ invocations > 0) =>
         (invocations = 1 /\ outcome = <<"resolved", "value">>)

\* C9 witness: a condition resolving 0 settled the call with no invocation
C9_Witness ==
  /\ Settled
  /\ entry = "idempotent"
  /\ condition = "0"
  /\ outcome = <<"resolved", Undefined>>
  /\ invocations = 0

\* the wait handed to the first retry call
FirstWait == IF entry = "idempotent" THEN DefaultWait ELSE OrDefault(waitArg, DefaultWait)

RECURSIVE Pow2(_)
Pow2(n) == IF n = 0 THEN 1 ELSE 2 * Pow2(n - 1)

\* the re-invocation that the i-th event belongs to (i > 1)
ReinvocationOf(i) == (i + 1) \div 3

\* C18: after each failed attempt with retries remaining, the signers'
\* pending counts are reset, then the wait elapses, then op is invoked again;
\* the wait before the k-th re-invocation is wait * 2^(k-1), and the budget
\* left goes down by one with each re-invocation.
C18_ResetWaitInvoke ==
  /\ \A i \in DOMAIN events :
       IF i = 1 THEN events[i] = Event("invoke", 1)
       ELSE IF i % 3 = 2
              THEN events[i] = Event("reset", Budget - (ReinvocationOf(i) - 1))
       ELSE IF i % 3 = 0
              THEN events[i] = Event("sleep", FirstWait * Pow2(ReinvocationOf(i) - 1))
       ELSE events[i] = Event("invoke", ReinvocationOf(i) + 1)
  /\ rpc = "sleep" =>
       /\ \A i \in DOMAIN pendingCounts : pendingCounts[i] = 0
       /\ events[Len(events)].ev = "reset"
       /\ wait = FirstWait * Pow2(invocations - 1)
  /\ rpc = "recurse" => events[Len(events)].ev = "sleep"
  /\ rpc \in {"awaiting", "catch", "sleep", "recurse"} =>
       /\ retries = Budget - (invocations - 1)
       /\ Len(events) = 3 * (invocations - 1) + 1
              + (IF rpc = "sleep" THEN 1 ELSE IF rpc = "recurse" THEN 2 ELSE 0)

\* C18 case reached: with the default wait, op was invoked a third time after
\* two failed attempts, each followed by a reset and a wait, of 250 and of 500
C18_Witness ==
  /\ Settled
  /\ waitArg = << >>
  /\ invocations = 3
  /\ Len(events) = 7
  /\ events[2].ev = "reset"
  /\ events[3] = Event("sleep", 250)
  /\ events[5].ev = "reset"
  /\ events[6] = Event("sleep", 500)
  /\ events[7] = Event("invoke", 3)

\* C19: with a timeLimit, an attempt that does not settle in time is treated
\* as an attempt that threw: with retries left it is followed by the reset,
\* the wait and a re-invocation with one retry less; with none left the call
\* rejects with the timeout's error; a call settles resolved or rejected and in
\* no other way.
C19_TimeoutIsFailure ==
  /\ [][(rpc = "catch" /\ attemptError[1].kind = "timeout" /\ rpc' # rpc) =>
          IF retries = 0
            THEN /\ rpc' = "settled"
                 /\ outcome' = <<"rejected", attemptError[1]>>
                 /\ events' = events
            ELSE /\ rpc' = "sleep"
                 /\ outcome' = << >>
                 /\ events' = Append(events, Event("reset", retries))]_vars
  /\ [][(rpc = "recurse" /\ rpc' # rpc) =>
          (rpc' = "invoke" /\ retries' = retries - 1)]_vars
  /\ [](Settled => outcome[1] \in {"resolved", "rejected"})
  /\ []((rpc \in {"awaiting", "catch", "sleep", "recurse"} /\ timeLimit # << >>) =>
          retries = Budget - (invocations - 1))

\* C19 case reached: every attempt of a call with a budget of at least one
\* retry failed, two of them by the timeout, and the call rejected with the
\* error of the last timeout
C19_Witness ==
  /\ Settled
  /\ timeLimit # << >>
  /\ Budget >= 1
  /\ timeouts = 2
  /\ invocations = Budget + 1
  /\ outcome = <<"rejected", TimeoutError(invocations)>>

\* C30: during retry at most one invocation of op is outstanding at any time:
\* a new attempt is started only after the previous one has settled, also
\* when the previous attempt was ended by the timeLimit timeout.
C30_OneOutstanding ==
  Cardinality(outstanding) <= 1

\* C30 case reached: an attempt was ended by the timeout, retry has invoked
\* op again, and the invocation the timeout left behind has not settled
C30_Witness ==
  /\ rpc = "awaiting"
  /\ timeouts >= 1
  /\ invocations >= 2
  /\ invocations \in outstanding
  /\ (invocations - 1) \in outstanding

(***************************************************************************)
(* Properties of DeploymentManager.deploy, clone and existing              *)
(***************************************************************************)
\* the last call was a deploy, clone or existing without force for an alias
\* the manager's contract map held
ExistingAliasCall ==
  /\ lastCall.op \in {"deploy", "clone", "existing"}
  /\ lastCall.known
  /\ ~lastCall.force

\* C10: a deploy, clone or existing call without force for an alias already
\* present in the manager's contract map returns the existing contract of
\* that alias, deploys and imports nothing, and leaves counter, the alias
\* store and the contract map unchanged.
C10_ExistingAliasReturned ==
  ExistingAliasCall =>
    /\ lastCall.outcome = "returned"
    /\ lastCall.value = lastCall.handle
    /\ chain = lastCall.before[2]
    /\ dm.counter = lastCall.before[1].counter
    /\ dm.aliases = lastCall.before[1].aliases
    /\ dm.contractsCache = lastCall.before[1].contractsCache

\* C10 case reached: such a call was made after the manager's spider had
\* found the alias to be a contract, and it threw a TypeError
C10_Witness ==
  /\ ExistingAliasCall
  /\ lastCall.outcome = "threw"
  /\ lastCall.error = "TypeError"

\* C11: once DeploymentManager.spider() has completed (on its own call or
\* triggered by the first contract / deploy / clone / existing call of a
\* fresh manager), contractsCache is a Map that holds a contract for every
\* alias the crawl discovered as a contract.
C11_ContractMapStored ==
  dm.contractsCache # NullValue =>
    /\ dm.contractsCache.type = "Map"
    /\ \A alias \in MapKeys(crawled) : MapHas(dm.contractsCache.entries, alias)

\* C11 case reached: a spider() call returned after its crawl found a
\* contract, and contractsCache is undefined
C11_Witness ==
  /\ lastCall.op = "spider"
  /\ lastCall.outcome = "returned"
  /\ crawled # << >>
  /\ dm.contractsCache = UndefinedValue

\* the last call was a deploy or clone with force, and neither the crawl, the
\* import nor the deployment it needed failed
ForcedCall ==
  /\ lastCall.op \in {"deploy", "clone"}
  /\ lastCall.force
  /\ lastCall.error \notin {"crawl error", "import error", "deploy error"}

\* C21: deploy and clone called with force deploy even when the alias is
\* bound: a new contract is deployed, counter goes up by one, the call returns
\* the new contract and the alias is bound to it in the alias store and in
\* the contract map, so that a later contract(alias) returns it.
C21_ForceDeploysAndRebinds ==
  ForcedCall =>
    /\ lastCall.outcome = "returned"
    /\ lastCall.value = lastCall.before[2].next
    /\ lastCall.value \in chain.code
    /\ dm.counter = lastCall.before[1].counter + 1
    /\ MapHas(dm.aliases, lastCall.alias)
    /\ MapGet(dm.aliases, lastCall.alias) = lastCall.value
    /\ dm.contractsCache.type = "Map"
    /\ MapHas(dm.contractsCache.entries, lastCall.alias)
    /\ MapGet(dm.contractsCache.entries, lastCall.alias) = lastCall.value

\* C21 case reached: a forced deploy or clone of an alias that the manager's
\* spider had found to be a contract threw a TypeError and deployed nothing
C21_Witness ==
  /\ ForcedCall
  /\ lastCall.known
  /\ lastCall.outcome = "threw"
  /\ lastCall.error = "TypeError"
  /\ chain = lastCall.before[2]

(***************************************************************************)
(* Properties of the crawl                                                 *)
(***************************************************************************)
\* every binding of map is still in next, at the same place
Keeps(map, next) ==
  /\ Len(map) <= Len(next)
  /\ \A n \in DOMAIN map : next[n] = map[n]

\* no key is bound twice in map
OneAddressPerAlias(map) ==
  \A m, n \in DOMAIN map : map[m].k = map[n].k => m = n

\* what a maybeStore call has to do, given the map it found
StoredAsClaimed(call) ==
  IF ~MapHas(call.before, call.alias)
    THEN call.outcome = "stored" /\ call.after = Append(call.before, Entry(call.alias, call.address))
    ELSE IF MapGet(call.before, call.alias) = call.address
           THEN call.outcome = "same" /\ call.after = call.before
           ELSE call.outcome = "threw" /\ call.after = call.before

\* C12: within one crawl an alias names at most one address: storing an alias
\* bound to the same address changes nothing and reports that nothing was
\* stored, storing an alias bound to a different address throws and leaves
\* the store unchanged, and a binding once made is never changed or removed.
C12_AliasBoundOnce ==
  [][/\ OneAddressPerAlias(aliases') /\ OneAddressPerAlias(proxies')
     /\ cpc = "crawling" => (Keeps(aliases, aliases') /\ Keeps(proxies, proxies'))
     /\ (cpc = "crawling" /\ stored' # stored) =>
          /\ StoredAsClaimed(stored')
          /\ stored'.into = "aliases" =>
               (stored'.before = aliases /\ stored'.after = aliases')
          /\ stored'.into = "proxies" =>
               (stored'.before = proxies /\ stored'.after = proxies')
          /\ stored'.outcome = "threw" <=> cpc' = "threw"
     /\ (cpc = "crawling" /\ stored' = stored /\ cpc' # "threw") =>
          (\A n \in DOMAIN aliases' : n \in DOMAIN aliases)]_vars

\* C12 case reached: an alias bound to one address was stored for another
\* address and the crawl threw
C12_Witness ==
  /\ cpc = "threw"
  /\ stored.outcome = "threw"
  /\ stored.into = "aliases"
  /\ aliases = stored.before
  /\ MapHas(aliases, stored.alias)

\* C13: spider terminates for every network and every relation config: each
\* crawl that is started returns or throws.
C13_SpiderTerminates ==
  (cpc = "crawling") ~> (cpc \in {"returned", "threw"})

\* C13 case reached: a contract named Proxy, configured by its name to have a
\* delegate, holds its own address in the delegate field; the crawl is about
\* to process it again under a longer alias, and again without end
C13_Witness ==
  /\ cpc = "diverging"
  /\ Top.byName
  /\ Top.kids[Top.k].address = Top.node.address

\* C14: spider run a second time with the same roots and relation config over
\* the same network returns the alias map and the proxy map of the first
\* run: the same keys bound to the same addresses in the same order; and it
\* returns nothing when the first run returned nothing.
C14_SecondRunSameMaps ==
  (run = 2 /\ cpc \in {"returned", "threw"}) => spiderResult = firstRun

\* C14 case reached: the second run has returned, with several aliases and a
\* proxy
C14_Witness ==
  /\ run = 2
  /\ cpc = "returned"
  /\ firstRun # << >>
  /\ Len(spiderResult[1].aliases) >= 3
  /\ spiderResult[1].proxies # << >>

\* the places of reads where alias was processed
ProcessedAt(alias) ==
  {n \in DOMAIN reads : reads[n].kind = "process" /\ reads[n].alias = alias}

\* the delegates and relations read while alias was processed
Produced(alias) ==
  {[kind |-> reads[n].kind, key |-> reads[n].key, value |-> reads[n].value] :
     n \in {m \in DOMAIN reads : reads[m].kind # "process" /\ reads[m].alias = alias}}

\* two distinct aliases of the alias map bound to one address that holds a
\* contract
SameContract(m, n) ==
  /\ m # n
  /\ aliases[m].v = aliases[n].v
  /\ aliases[m].v \in DOMAIN netCode
  /\ netCode[aliases[m].v] # ""

\* C15: the crawl memoizes by alias: each alias is processed at most once per
\* crawl, and when two distinct aliases of the resulting alias map are bound
\* to the same contract address, the address was processed once under each,
\* each time producing the same delegates and relations.
C15_ProcessedOncePerAlias ==
  cpc = "returned" =>
    /\ \A n \in DOMAIN aliases : Cardinality(ProcessedAt(aliases[n].k)) <= 1
    /\ \A m, n \in DOMAIN aliases :
         SameContract(m, n) =>
           /\ Cardinality(ProcessedAt(aliases[m].k)) = 1
           /\ Cardinality(ProcessedAt(aliases[n].k)) = 1
           /\ Produced(aliases[m].k) = Produced(aliases[n].k)

\* C15 case reached: a crawl has returned with two aliases bound to one
\* contract address, each processed once
C15_Witness ==
  /\ cpc = "returned"
  /\ \E m, n \in DOMAIN aliases :
       /\ SameContract(m, n)
       /\ Cardinality(ProcessedAt(aliases[m].k)) = 1
       /\ Cardinality(ProcessedAt(aliases[n].k)) = 1

\* crawl is entered for a node whose alias template has a config entry
ConfiguredNodeEntered ==
  /\ cpc = "crawling"
  /\ stack # << >>
  /\ Top.phase = "enter"
  /\ ConfigOf(aliasTemplateKey(Top.node.aliasRender.template)) # << >>

\* C20: when the relation config has an entry for a node's alias template and
\* the node's address holds no code, the crawl throws: nothing is bound for
\* the node, and spider returns no result.
C20_ConfigWithoutContractAborts ==
  /\ [][(/\ ConfiguredNodeEntered
         /\ Top.node.address \in DOMAIN netCode'
         /\ netCode'[Top.node.address] = ""
         /\ cpc' # cpc \/ stack' # stack \/ aliases' # aliases)
          => /\ cpc' = "threw"
             /\ aliases' = aliases
             /\ proxies' = proxies
             /\ contractMap' = contractMap
             /\ spiderResult' = << >>]_vars
  /\ [][cpc = "threw" => (cpc' \in {"threw", "start"} /\ spiderResult' = << >>)]_vars

\* C20 case reached: the crawl threw at a node that has a config for its
\* alias template and no code at its address, after other aliases were bound
C20_Witness ==
  /\ cpc = "threw"
  /\ spiderError = "Found config but no contract"
  /\ ConfigOf(aliasTemplateKey(Top.node.aliasRender.template)) # << >>
  /\ netCode[Top.node.address] = ""
  /\ aliases # << >>
  /\ ~MapHas(aliases, readAlias(Top.node.aliasRender))

\* crawl is entered for a node whose alias template has no config entry
PlainNodeEntered ==
  /\ cpc = "crawling"
  /\ stack # << >>
  /\ Top.phase = "enter"
  /\ ConfigOf(aliasTemplateKey(Top.node.aliasRender.template)) = << >>

\* the aliases of the alias map bound to an address that holds no code
CodelessAliases ==
  {aliases[n].k : n \in {m \in DOMAIN aliases :
                           /\ aliases[m].v \in DOMAIN netCode
                           /\ netCode[aliases[m].v] = ""}}

\* C26: an address that holds no code and whose alias template has no
\* relation config is bound in the alias map under its rendered alias and the
\* call returns that alias at once: no delegate or relation is read for it and
\* it gets no entry in the contract map or the proxy map.  (The store throws,
\* as every maybeStore does, when the alias is bound to another address.)
C26_CodelessNodeOnlyAliased ==
  /\ [][(/\ PlainNodeEntered
         /\ Top.node.address \in DOMAIN netCode'
         /\ netCode'[Top.node.address] = ""
         /\ cpc' # cpc \/ stack' # stack \/ aliases' # aliases)
          => /\ reads' = reads
             /\ netField' = netField
             /\ contractMap' = contractMap
             /\ proxies' = proxies
             /\ context' = context
             /\ IF /\ MapHas(aliases, readAlias(Top.node.aliasRender))
                   /\ MapGet(aliases, readAlias(Top.node.aliasRender)) # Top.node.address
                  THEN cpc' = "threw" /\ aliases' = aliases
                  ELSE /\ cpc' = cpc
                       /\ aliases' = MapSet(aliases, readAlias(Top.node.aliasRender),
                                            Top.node.address)
                       /\ Keeps(aliases, aliases')
                       /\ stack' = Pop
                       /\ returnedAlias' = << readAlias(Top.node.aliasRender) >>]_vars
  /\ [](\A a \in CodelessAliases :
          /\ ~MapHas(contractMap, a)
          /\ ~MapHas(proxies, a)
          /\ \A n \in DOMAIN reads : reads[n].alias # a)
  /\ [](\A n \in DOMAIN reads :
          reads[n].address \in DOMAIN netCode /\ netCode[reads[n].address] # "")

\* C26 case reached: a relation of a processed contract led to an address
\* without code; its alias is bound and the crawl went on
C26_Witness ==
  /\ cpc = "crawling"
  /\ stack # << >>
  /\ Top.phase = "relations"
  /\ returnedAlias # << >>
  /\ returnedAlias[1] \in CodelessAliases
  /\ returnedAlias[1] # Top.alias
  /\ ~MapHas(contractMap, returnedAlias[1])
  /\ MapHas(contractMap, Top.alias)

\* the places of reads where the delegates of alias were read
DelegatesReadAt(alias) ==
  {n \in DOMAIN reads : reads[n].kind = "delegates" /\ reads[n].alias = alias}

\* the places of reads where a relation of alias was read
RelationsReadAt(alias) ==
  {n \in DOMAIN reads : reads[n].kind = "relations" /\ reads[n].alias = alias}

\* the delegate at address was crawled: an alias of the alias map is bound to
\* it, with a handle in the contract map, and it was processed before place n
DelegateCrawledBefore(address, n) ==
  \E m \in DOMAIN aliases :
    /\ aliases[m].v = address
    /\ MapHas(contractMap, aliases[m].k)
    /\ \E q \in ProcessedAt(aliases[m].k) : q < n /\ reads[q].address = address

\* C27: when a contract with configured delegates is processed under alias A,
\* each delegate is crawled by crawl itself before A's handle is put in the
\* contract map and before any relation of A is read; once A is processed the
\* proxy map binds A to the delegate's address and the delegate's alias is
\* bound in the alias map.
C27_DelegatesFirst ==
  /\ [](cpc \in {"crawling", "diverging", "threw"} =>
          \A j \in DOMAIN stack :
            stack[j].phase = "delegates" =>
              /\ stack[j].config.delegates # << >>
              /\ ~MapHas(contractMap, stack[j].alias)
              /\ RelationsReadAt(stack[j].alias) = {})
  /\ [][(/\ cpc = "crawling"
         /\ stack # << >>
         /\ Top.phase = "delegates"
         /\ contractMap' # contractMap)
          => /\ Top.discovered
             /\ Top.k = Len(Top.kids) + 1
             /\ DelegatesReadAt(Top.alias) # {}
             /\ contractMap' = MapSet(contractMap, Top.alias, Top.contract)
             /\ \A n \in DOMAIN Top.kids :
                  /\ MapHas(aliases, readAlias(Top.kids[n].aliasRender))
                  /\ MapGet(aliases, readAlias(Top.kids[n].aliasRender)) = Top.kids[n].address
                  /\ MapHas(contractMap, readAlias(Top.kids[n].aliasRender))
                  /\ MapGet(contractMap, readAlias(Top.kids[n].aliasRender)).abi
                       \subseteq Top.contract.abi
                  /\ MapHas(proxies, Top.alias)
                  /\ MapGet(proxies, Top.alias) = Top.kids[n].address]_vars
  /\ [][(/\ cpc = "crawling"
         /\ stack # << >>
         /\ Top.phase = "delegates"
         /\ Len(stack') > Len(stack))
          => /\ stack' = Append(stack, Frame(Top.kids[Top.k], "delegate"))
             /\ stack'[Len(stack')].phase = "enter"]_vars
  /\ [](\A n \in DOMAIN reads :
          (reads[n].kind = "delegates" /\ MapHas(contractMap, reads[n].alias)) =>
            \A d \in DOMAIN reads[n].value :
              /\ MapHas(proxies, reads[n].alias)
              /\ MapGet(proxies, reads[n].alias) = reads[n].value[d]
              /\ \E m \in DOMAIN aliases : aliases[m].v = reads[n].value[d])
  /\ [](\A n \in DOMAIN reads :
          reads[n].kind = "relations" =>
            /\ MapHas(contractMap, reads[n].alias)
            /\ \A m \in DelegatesReadAt(reads[n].alias) :
                 /\ m < n
                 /\ \A d \in DOMAIN reads[m].value :
                      DelegateCrawledBefore(reads[m].value[d], n))

\* C27 case reached: "comet" was processed with a delegate and a relation: its
\* delegate was crawled, the proxy map binds comet to it, and the relation
\* was read afterwards
C27_Witness ==
  /\ cpc = "returned"
  /\ MapHas(contractMap, "comet")
  /\ MapHas(proxies, "comet")
  /\ MapHas(aliases, "comet:implementation")
  /\ MapGet(aliases, "comet:implementation") = MapGet(proxies, "comet")
  /\ MapHas(contractMap, "comet:implementation")
  /\ DelegatesReadAt("comet") # {}
  /\ RelationsReadAt("comet") # {}
  /\ Cardinality(MapGet(contractMap, "comet").abi) = 2

\* the list context holds under key: [] when the key is not set
ContextOf(c, key) == IF MapHas(c, key) THEN MapGet(c, key) ELSE << >>

\* every entry of context is an entry of next, at the same place of the
\* same key
ContextKept(c, next) ==
  /\ Keeps([n \in DOMAIN c |-> c[n].k], [n \in DOMAIN next |-> next[n].k])
  /\ \A n \in DOMAIN c : Keeps(c[n].v, ContextOf(next, c[n].k))

\* the crawl of a node of a relation has returned to the call that made it
RelationReturned ==
  /\ cpc = "crawling"
  /\ stack # << >>
  /\ Top.phase = "relations"
  /\ returnedAlias # << >>

\* C28: the context of a spider() invocation is one object for all its crawl
\* calls: a contract handle found under relation key K is appended to
\* context[K], and what context holds is kept, in place, for every later crawl
\* call of the invocation: entries are only appended, never removed or reset.
C28_ContextAppendOnly ==
  /\ [][cpc # "start" => ContextKept(context, context')]_vars
  /\ [][cpc = "start" => context' = << >>]_vars
  /\ [][context' # context =>
          \/ cpc = "start"
          \/ /\ RelationReturned
             /\ MapHas(contractMap, returnedAlias[1])
             /\ \A n \in DOMAIN context' :
                  context'[n].v =
                    IF context'[n].k = Top.config.relations[Top.r].key
                      THEN Append(ContextOf(context, context'[n].k),
                                  MapGet(contractMap, returnedAlias[1]))
                      ELSE ContextOf(context, context'[n].k)]_vars
  /\ [][(RelationReturned /\ returnedAlias' = << >> /\ cpc' = cpc)
          => IF MapHas(contractMap, returnedAlias[1])
               THEN ContextOf(context', Top.config.relations[Top.r].key)
                      = Append(ContextOf(context, Top.config.relations[Top.r].key),
                               MapGet(contractMap, returnedAlias[1]))
               ELSE context' = context]_vars

\* C28 case reached: a crawl call is entered below a relation while the
\* context holds two handles, of two nodes crawled before it, under one key
C28_Witness ==
  /\ cpc = "crawling"
  /\ Len(stack) >= 2
  /\ Top.phase = "enter"
  /\ Top.via = "relation"
  /\ Len(ContextOf(context, "token")) >= 2
  /\ ContextOf(context, "token")[1] # ContextOf(context, "token")[2]

(***************************************************************************)
(* Properties of DeploymentManager.spider                                  *)
(***************************************************************************)
\* a call of spider(deployed) on the manager has just settled
SpiderCallSettled ==
  /\ lastCall.op = "spider"
  /\ lastCall.outcome \in {"returned", "threw"}

\* merged is the union of roots and deployed, a deployed alias taking the
\* address of deployed
UnionOfRoots(merged, roots, deployed) ==
  /\ OneAddressPerAlias(merged)
  /\ MapKeys(merged) = MapKeys(roots) \cup MapKeys(deployed)
  /\ \A n \in DOMAIN merged :
       merged[n].v = IF MapHas(deployed, merged[n].k) THEN MapGet(deployed, merged[n].k)
                     ELSE MapGet(roots, merged[n].k)

\* C29: spider(deployed) crawls from the union of the persisted roots and the
\* deployed aliases, a deployed alias overriding a persisted root of the same
\* name, and then persists that union as the new roots: the persisted roots
\* never lose an alias; if the crawl throws, the persisted roots, aliases and
\* proxies are left as they were.
C29_SpiderPersistsUnionOfRoots ==
  /\ []((SpiderCallSettled /\ lastCall.outcome = "returned") =>
          /\ UnionOfRoots(dm.roots, lastCall.before[1].roots, deployedArg)
          /\ Keeps([n \in DOMAIN lastCall.before[1].roots |-> lastCall.before[1].roots[n].k],
                   [n \in DOMAIN dm.roots |-> dm.roots[n].k])
          /\ dm.aliases = dm.roots
          /\ \A n \in DOMAIN dm.roots :
               dm.roots[n].v \in chain.code =>
                 /\ MapHas(crawled, dm.roots[n].k)
                 /\ MapGet(crawled, dm.roots[n].k) = dm.roots[n].v)
  /\ []((SpiderCallSettled /\ lastCall.outcome = "threw") =>
          /\ dm.roots = lastCall.before[1].roots
          /\ dm.aliases = lastCall.before[1].aliases
          /\ dm.proxies = lastCall.before[1].proxies)
  /\ [][MapKeys(dm.roots) \subseteq MapKeys(dm'.roots)]_vars

\* C29 case reached: a second spider call in a row returned; it was handed a
\* deployed alias that a persisted root bound to another address, and the
\* persisted roots hold both aliases
C29_Witness ==
  /\ SpiderCallSettled
  /\ lastCall.outcome = "returned"
  /\ ncalls = 2
  /\ lastCall.before[1].contractsCache # NullValue
  /\ deployedArg # << >>
  /\ MapHas(lastCall.before[1].roots, deployedArg[1].k)
  /\ MapGet(lastCall.before[1].roots, deployedArg[1].k) # deployedArg[1].v
  /\ MapGet(dm.roots, deployedArg[1].k) = deployedArg[1].v
  /\ Len(dm.roots) = 2

(***************************************************************************)
(* Properties of DeploymentManager.counter                                 *)
(***************************************************************************)
\* the _deploy / _deployBuild calls that have completed successfully
SuccessfulDeploys ==
  Cardinality({n \in DOMAIN deployLog : deployLog[n] = "resolved"})

\* C31: counter equals the number of _deploy / _deployBuild calls that
\* completed successfully: it goes up by exactly one per successful
\* deployment, however many attempts retry needed, and stays as it is when a
\* deployment fails after its retries are used up.
C31_CounterCountsDeployments ==
  /\ [](dm.counter = SuccessfulDeploys)
  /\ [][dm'.counter # dm.counter =>
          /\ dm'.counter = dm.counter + 1
          /\ rpc = "settled"
          /\ outcome[1] = "resolved"
          /\ invocations = fails + 1
          /\ Len(deployLog') = Len(deployLog) + 1]_vars
  /\ [][(entry = "_deploy" /\ rpc = "settled" /\ rpc' # rpc /\ outcome[1] = "rejected")
          => (dm'.counter = dm.counter /\ deployLog' = Append(deployLog, "rejected"))]_vars
  /\ [][(entry = "_deploy" /\ rpc # "settled") => dm'.counter = dm.counter]_vars

\* C31 case reached: of two deployments on one manager the first used up its
\* retries and failed, the second succeeded at its fourth attempt; counter is 1
C31_Witness ==
  /\ entry = "_deploy"
  /\ rpc = "returned"
  /\ deployLog = << "rejected", "resolved" >>
  /\ invocations = 4
  /\ dm.counter = 1

(***************************************************************************)
(* Properties of DeploymentManager.getSigner                               *)
(***************************************************************************)
\* C32: getSigner() without address returns the same signer, the managed
\* wrapper of the provider's first signer, in every call of a manager's
\* lifetime, whatever getSigner(address) and getSigners() calls came before.
C32_DefaultSignerIsProviderFirst ==
  \A n \in DOMAIN defaultReturned :
    /\ defaultReturned[n] # << >>
    /\ toLowerCase(defaultReturned[n][1].address) = toLowerCase(providerSigners[1])
    /\ defaultReturned[n] = defaultReturned[1]

\* C32 case reached: getSigner(address) for an account that is not the
\* provider's first was the manager's first call; getSigner() then returned
\* the wrapper of that account
C32_Witness ==
  /\ Len(defaultReturned) >= 1
  /\ managedSigners # << >>
  /\ toLowerCase(managedSigners[1].address) # toLowerCase(providerSigners[1])
  /\ defaultReturned[Len(defaultReturned)] = << managedSigners[1] >>

(***************************************************************************)
(* Properties of the crawl's maps                                          *)
(***************************************************************************)
\* alias is a key of the alias map, bound to the address of the node that
\* was processed under it
BoundToProcessed(alias) ==
  /\ MapHas(aliases, alias)
  /\ ProcessedAt(alias) # {}
  /\ \A q \in ProcessedAt(alias) : reads[q].address = MapGet(aliases, alias)

\* C33: at every point of a crawl and on return of spider(), every key of the
\* proxy map and every key of the contract map is a key of the alias map, and
\* the alias map binds it to the address of the node processed under it.
C33_KeysAreAliases ==
  /\ \A n \in DOMAIN contractMap :
       /\ BoundToProcessed(contractMap[n].k)
       /\ contractMap[n].v.address = MapGet(aliases, contractMap[n].k)
  /\ \A n \in DOMAIN proxies : BoundToProcessed(proxies[n].k)
  /\ cpc = "returned" =>
       /\ spiderResult # << >>
       /\ spiderResult[1].aliases = aliases
       /\ MapKeys(spiderResult[1].proxies) \subseteq MapKeys(spiderResult[1].aliases)
       /\ MapKeys(contractMap) \subseteq MapKeys(spiderResult[1].aliases)

\* C33 case reached: spider has returned with a proxy, three contracts and an
\* alias bound to an address without code
C33_Witness ==
  /\ cpc = "returned"
  /\ proxies # << >>
  /\ Len(contractMap) >= 3
  /\ Len(aliases) > Len(contractMap)
  /\ \A n \in DOMAIN proxies : MapHas(contractMap, proxies[n].k)

(***************************************************************************)
(* Properties of the mumbai/usdc deploy script                             *)
(***************************************************************************)
\* a second run of deploy() on a manager whose contract map holds every alias
\* the script binds, with every idempotent() condition false
RerunOnDeployed ==
  /\ kpc # "idle"
  /\ scriptRun = 2
  /\ cacheIsMap
  /\ heldAtStart = ScriptAliases
  /\ \A i \in IdempotentStatements : ~conditionsNow[i]

====
